---- MODULE Spec2Model ----
(***************************************************************************)
(* Integrated analysis pipeline of the COCOMO II code analyzer:            *)
(*   - GitAnalyzer.get_commits        (parser of `git log --shortstat`)    *)
(*   - GitAnalyzer.calculate_metrics  (aggregation of the commit records)  *)
(*   - GitAnalysisService / SecurityAnalysisService / CodeAnalysisService  *)
(*   - IntegratedAnalysisService.analyze (the four-stage orchestrator)     *)
(*   - IntegratedAnalyzer.export_json and generate_pdf_report              *)
(*   - the command-line entry points of main.py and git_analyzer.py        *)
(*   - CocomoIIAnalyzerApp, the terminal UI, with its worker threads       *)
(*                                                                         *)
(* Text is modelled as a sequence of tokens.  A token is one character     *)
(* ("|", " ", ",", a digit, the line feed "\n") or one word that the code  *)
(* only ever treats as a unit ("changed", "file", "insertion",             *)
(* "deletion", a date such as "2024-01-01", a time, a UTC offset, a name). *)
(***************************************************************************)
EXTENDS Integers, Sequences, FiniteSets, TLC

VARIABLES
    \* ---- direct use of GitAnalyzer on one log text ----
    log_output,          \* what `git log` printed (token sequence)
    parsed,              \* outcome of get_commits, None before the call
    aggregated,          \* outcome of calculate_metrics, None before the call
    serviced,            \* outcome of the orchestrator's Git stage, None before
    \* ---- direct use of one of the pure calculators ----
    input,               \* the function applied and its arguments
    result,              \* what it returned or raised, None before the call
    \* ---- one IntegratedAnalysisService instance ----
    pc,                  \* position inside analyze: idle, code, git, ...
    call,                \* arguments and environment of the running call
    code_metrics,        \* self.code_metrics
    cocomo_results,      \* self.cocomo_results
    git_metrics,         \* self.git_metrics
    security_metrics,    \* self.security_metrics
    integrated_metrics,  \* self.integrated_metrics
    outcome,             \* what the last analyze call returned or raised
    events,              \* percents passed to the progress callback, this call
    started,             \* stages entered by this call, in order
    calls,               \* number of analyze calls started on the instance
    exported,            \* outcome of export_json on the returned bundle
    report,              \* outcome of generate_pdf_report on a JSON file
    \* ---- one CocomoIIAnalyzerApp, the terminal UI ----
    app,                 \* the attributes of the app object
    workers,             \* the worker threads started so far, in order
    displayed,           \* what update_results showed last
    export_file          \* the data written by the last JSON or PDF export

vars == <<log_output, parsed, aggregated, serviced, input, result, pc, call,
          code_metrics,
          cocomo_results, git_metrics, security_metrics, integrated_metrics,
          outcome, events, started, calls, exported, report,
          app, workers, displayed, export_file>>

calcVars == <<input, result>>
tuiVars == <<app, workers, displayed, export_file>>
gitVars == <<log_output, parsed, aggregated, serviced, calcVars>>
svcVars == <<pc, call, code_metrics, cocomo_results, git_metrics,
             security_metrics, integrated_metrics, outcome, events, started,
             calls, exported, report>>

\* Python's None; every optional value of the model is a record
None == [kind |-> "None"]

\* ------------------------------------------------------------------------
\* Bounds
\* ------------------------------------------------------------------------
\* longest log text, in lines
MaxLines == 3
\* analyze calls on one service instance
MaxCalls == 2
\* worker threads started by one run of the terminal UI
MaxWorkers == 3
\* longest commit list given to calculate_metrics directly
MaxCommits == 3

\* ------------------------------------------------------------------------
\* Python string primitives over token sequences
\* ------------------------------------------------------------------------
Range(s) == {s[k] : k \in 1..Len(s)}

Last(s) == s[Len(s)]

RECURSIVE SplitAcc(_, _, _, _)
SplitAcc(s, sep, cur, acc) ==
    IF s = <<>> THEN Append(acc, cur)
    ELSE IF Head(s) = sep
         THEN SplitAcc(Tail(s), sep, <<>>, Append(acc, cur))
         ELSE SplitAcc(Tail(s), sep, Append(cur, Head(s)), acc)

\* str.split(sep): empty pieces are kept
Split(s, sep) == SplitAcc(s, sep, <<>>, <<>>)

\* str.split(): split on runs of whitespace, empty pieces are dropped
SplitWs(s) == SelectSeq(Split(s, " "), LAMBDA w : w # <<>>)

RECURSIVE LStrip(_)
LStrip(s) == IF s # <<>> /\ Head(s) = " " THEN LStrip(Tail(s)) ELSE s

RECURSIVE RStrip(_)
RStrip(s) ==
    IF s # <<>> /\ Last(s) = " " THEN RStrip(SubSeq(s, 1, Len(s) - 1)) ELSE s

\* str.strip()
Strip(s) == RStrip(LStrip(s))

DigitVal == [c \in {"0", "1", "2", "3", "4", "5", "6", "7", "8", "9"} |->
               CASE c = "0" -> 0 [] c = "1" -> 1 [] c = "2" -> 2 [] c = "3" -> 3
                 [] c = "4" -> 4 [] c = "5" -> 5 [] c = "6" -> 6 [] c = "7" -> 7
                 [] c = "8" -> 8 [] c = "9" -> 9]

RECURSIVE DigitsVal(_, _)
DigitsVal(s, acc) ==
    IF s = <<>> THEN acc ELSE DigitsVal(Tail(s), 10 * acc + DigitVal[Head(s)])

\* int(s): surrounding whitespace is ignored, the rest must be digits
ParseInt(s) ==
    LET t == Strip(s)
    IN IF t # <<>> /\ Range(t) \subseteq DOMAIN DigitVal
       THEN [ok |-> TRUE, val |-> DigitsVal(t, 0)]
       ELSE [ok |-> FALSE, exc |-> "ValueError"]

RECURSIVE ReplaceFirst(_, _, _)
\* str.replace(old, new, 1)
ReplaceFirst(s, old, new) ==
    IF s = <<>> THEN <<>>
    ELSE IF Head(s) = old THEN <<new>> \o Tail(s)
    ELSE <<Head(s)>> \o ReplaceFirst(Tail(s), old, new)

RECURSIVE RSplitHead(_, _)
\* str.rsplit(sep, 1)[0]: what precedes the last sep, or all of s
RSplitHead(s, sep) ==
    IF sep \notin Range(s) THEN s
    ELSE IF Last(s) = sep THEN SubSeq(s, 1, Len(s) - 1)
    ELSE RSplitHead(SubSeq(s, 1, Len(s) - 1), sep)

\* ------------------------------------------------------------------------
\* Dates
\* ------------------------------------------------------------------------
\* calendar dates of the inputs, as day numbers
DayOf == [d \in {"2024-01-01", "2024-01-02", "2024-01-05"} |->
            CASE d = "2024-01-01" -> 1 [] d = "2024-01-02" -> 2
              [] d = "2024-01-05" -> 5]

\* wall-clock times of the inputs, as seconds since midnight
SecOf == [t \in {"10:00:00", "23:30:00"} |->
            CASE t = "10:00:00" -> 36000 [] t = "23:30:00" -> 84600]

\* datetime.fromisoformat on 'YYYY-MM-DD' or 'YYYY-MM-DDTHH:MM:SS'
fromisoformat(s) ==
    IF Len(s) = 1 /\ s[1] \in DOMAIN DayOf
    THEN [ok |-> TRUE, val |-> [day |-> DayOf[s[1]], sec |-> 0]]
    ELSE IF Len(s) = 3 /\ s[1] \in DOMAIN DayOf /\ s[2] = "T"
                       /\ s[3] \in DOMAIN SecOf
    THEN [ok |-> TRUE, val |-> [day |-> DayOf[s[1]], sec |-> SecOf[s[3]]]]
    ELSE [ok |-> FALSE, exc |-> "ValueError"]

\* datetime.fromisoformat(date_str.replace(' ', 'T', 1).rsplit(' ', 1)[0])
ParseDate(date_str) ==
    fromisoformat(RSplitHead(ReplaceFirst(date_str, " ", "T"), " "))

\* ------------------------------------------------------------------------
\* GitAnalyzer.get_commits
\* ------------------------------------------------------------------------
\* CommitInfo(hash, author, date, message, files_changed, insertions,
\*            deletions, total_changes)
CommitInfo(h, a, d, m, f, i, del, t) ==
    [hash |-> h, author |-> a, date |-> d, message |-> m, files_changed |-> f,
     insertions |-> i, deletions |-> del, total_changes |-> t]

\* ParseStats reading the deletions from the pieces of the insertion split
ParseStats_reuse(stats_line) ==
    LET files == IF "file" \in Range(stats_line)
                 THEN ParseInt(SplitWs(stats_line)[1])
                 ELSE [ok |-> TRUE, val |-> 0]
        ins   == IF "insertion" \in Range(stats_line)
                 THEN ParseInt(Last(Split(Split(stats_line, "insertion")[1], ",")))
                 ELSE [ok |-> TRUE, val |-> 0]
        del   == IF "deletion" \in Range(stats_line)
                 THEN ParseInt(Last(Split(Split(stats_line, "insertion")[1], ",")))
                 ELSE [ok |-> TRUE, val |-> 0]
    IN IF files.ok /\ ins.ok /\ del.ok
       THEN [ok |-> TRUE, files_changed |-> files.val, insertions |-> ins.val,
             deletions |-> del.val]
       ELSE [ok |-> FALSE, exc |-> "ValueError"]

\* lines 87-104: the counts read from the line after a header
ParseStats(stats_line) ==
    LET files == IF "file" \in Range(stats_line)
                 THEN ParseInt(SplitWs(stats_line)[1])
                 ELSE [ok |-> TRUE, val |-> 0]
        ins   == IF "insertion" \in Range(stats_line)
                 THEN ParseInt(Last(Split(Split(stats_line, "insertion")[1], ",")))
                 ELSE [ok |-> TRUE, val |-> 0]
        del   == IF "deletion" \in Range(stats_line)
                 THEN ParseInt(Last(Split(Split(stats_line, "deletion")[1], ",")))
                 ELSE [ok |-> TRUE, val |-> 0]
    IN IF files.ok /\ ins.ok /\ del.ok
       THEN [ok |-> TRUE, files_changed |-> files.val, insertions |-> ins.val,
             deletions |-> del.val]
       ELSE [ok |-> FALSE, exc |-> "ValueError"]

NoStats == [ok |-> TRUE, files_changed |-> 0, insertions |-> 0, deletions |-> 0]

RECURSIVE ScanLines(_, _, _)
\* lines 74-121: the while loop; i is the 1-based index of the current line
ScanLines(lines, i, commits) ==
    IF i > Len(lines) THEN [ok |-> TRUE, commits |-> commits]
    ELSE IF "|" \in Range(lines[i]) /\ Len(Split(lines[i], "|")) >= 4
    THEN LET parts    == Split(lines[i], "|")
             date     == ParseDate(parts[3])
             hasStats == i + 1 <= Len(lines) /\ "changed" \in Range(lines[i + 1])
             stats    == IF hasStats THEN ParseStats(lines[i + 1]) ELSE NoStats
         IN IF ~date.ok \/ ~stats.ok
            THEN [ok |-> FALSE, exc |-> "ValueError"]
            ELSE ScanLines(lines, (IF hasStats THEN i + 1 ELSE i) + 1,
                    Append(commits,
                        CommitInfo(parts[1], parts[2], date.val, parts[4],
                                   stats.files_changed, stats.insertions,
                                   stats.deletions,
                                   stats.insertions + stats.deletions)))
    ELSE ScanLines(lines, i + 1, commits)

\* get_commits applied to the text printed by `git log`
get_commits(text) == ScanLines(Split(text, "\n"), 1, <<>>)

\* ------------------------------------------------------------------------
\* GitAnalyzer.calculate_metrics
\* ------------------------------------------------------------------------
RECURSIVE SumOver(_, _)
SumOver(s, field) ==
    IF s = <<>> THEN 0 ELSE s[1][field] + SumOver(Tail(s), field)

\* the loop of lines 136-137 storing 1 for the author of every commit
CountAuthors_overwrite(s, authors) ==
    [a \in DOMAIN authors \cup {s[k].author : k \in 1..Len(s)} |-> 1]

RECURSIVE CountAuthors(_, _)
\* lines 130 and 136-137: authors = defaultdict(int) and, for each commit in
\* order, authors[commit.author] += 1
CountAuthors(s, authors) ==
    IF s = <<>> THEN authors
    ELSE LET a == Head(s).author
         IN CountAuthors(Tail(s),
                IF a \in DOMAIN authors
                THEN [authors EXCEPT ![a] = @ + 1]
                ELSE [x \in DOMAIN authors \cup {a} |->
                        IF x = a THEN 1 ELSE authors[x]])

\* seconds since the epoch of the model's calendar
Seconds(d) == d.day * 86400 + d.sec

\* MinBy taking the oldest commit to be the last one of the list
MinBy_input_order(s, best) == IF s = <<>> THEN best ELSE Last(s)

RECURSIVE MinBy(_, _)
\* min(commits, key=date): the first commit holding the least date
MinBy(s, best) ==
    IF s = <<>> THEN best
    ELSE MinBy(Tail(s), IF Seconds(Head(s).date) < Seconds(best.date)
                        THEN Head(s) ELSE best)

RECURSIVE MaxBy(_, _)
\* max(commits, key=date): the first commit holding the greatest date
MaxBy(s, best) ==
    IF s = <<>> THEN best
    ELSE MaxBy(Tail(s), IF Seconds(Head(s).date) > Seconds(best.date)
                        THEN Head(s) ELSE best)

\* a quotient a / b kept exact as numerator and denominator
Ratio(a, b) == [num |-> a, den |-> b]

\* calculate_metrics without the floor of repository_age_days
calculate_metrics_nofloor(commits) ==
    IF commits = <<>>
    THEN [ok |-> FALSE, exc |-> "ValueError", msg |-> "Nenhum commit encontrado"]
    ELSE LET total_commits == Len(commits)
             authors       == CountAuthors(commits, <<>>)
             first_commit  == MinBy(commits, commits[1])
             last_commit   == MaxBy(commits, commits[1])
             span          == (Seconds(last_commit.date)
                               - Seconds(first_commit.date)) \div 86400
             repo_age_days == span
         IN [ok |-> TRUE,
             metrics |->
               [kind |-> "GitMetrics",
                total_commits |-> total_commits,
                total_authors |-> Cardinality(DOMAIN authors),
                authors_commits |-> authors,
                total_insertions |-> SumOver(commits, "insertions"),
                total_deletions |-> SumOver(commits, "deletions"),
                avg_changes_per_commit |->
                    Ratio(SumOver(commits, "total_changes"), total_commits),
                avg_files_per_commit |->
                    Ratio(SumOver(commits, "files_changed"), total_commits),
                commits_per_day |->
                    IF repo_age_days > 0 THEN Ratio(total_commits, repo_age_days)
                    ELSE Ratio(0, 1),
                first_commit_date |-> first_commit.date,
                last_commit_date |-> last_commit.date,
                repository_age_days |-> repo_age_days]]

\* lines 123-163
calculate_metrics(commits) ==
    IF commits = <<>>
    THEN [ok |-> FALSE, exc |-> "ValueError", msg |-> "Nenhum commit encontrado"]
    ELSE LET total_commits == Len(commits)
             authors       == CountAuthors(commits, <<>>)
             first_commit  == MinBy(commits, commits[1])
             last_commit   == MaxBy(commits, commits[1])
             span          == (Seconds(last_commit.date)
                               - Seconds(first_commit.date)) \div 86400
             repo_age_days == IF span = 0 THEN 1 ELSE span
         IN [ok |-> TRUE,
             metrics |->
               [kind |-> "GitMetrics",
                total_commits |-> total_commits,
                total_authors |-> Cardinality(DOMAIN authors),
                authors_commits |-> authors,
                total_insertions |-> SumOver(commits, "insertions"),
                total_deletions |-> SumOver(commits, "deletions"),
                avg_changes_per_commit |->
                    Ratio(SumOver(commits, "total_changes"), total_commits),
                avg_files_per_commit |->
                    Ratio(SumOver(commits, "files_changed"), total_commits),
                commits_per_day |->
                    IF repo_age_days > 0 THEN Ratio(total_commits, repo_age_days)
                    ELSE Ratio(0, 1),
                first_commit_date |-> first_commit.date,
                last_commit_date |-> last_commit.date,
                repository_age_days |-> repo_age_days]]

\* ------------------------------------------------------------------------
\* GitAnalysisService
\* ------------------------------------------------------------------------
\* A repository as the service finds it: has_git says whether <path>/.git
\* exists, git_cmd how running `git log` ends ("ok": exit status 0 with
\* log_output on stdout, "failed": non-zero exit status, "missing": no git
\* executable), log_output what it prints.
Repo(has_git, git_cmd, text) ==
    [has_git |-> has_git, git_cmd |-> git_cmd, log_output |-> text]

GitAnalysisError(msg) == [ok |-> FALSE, exc |-> "GitAnalysisError", msg |-> msg]

\* GitAnalyzer.run_git_command(['log', ...]): CalledProcessError gives ""
run_git_command(repo) ==
    CASE repo.git_cmd = "ok"      -> [ok |-> TRUE, out |-> repo.log_output]
      [] repo.git_cmd = "failed"  -> [ok |-> TRUE, out |-> <<>>]
      [] repo.git_cmd = "missing" -> [ok |-> FALSE, exc |-> "FileNotFoundError"]

\* GitAnalysisService(repo_path) followed by .analyze(), as the orchestrator
\* calls them
GitAnalysisService_analyze(repo) ==
    IF ~repo.has_git
    THEN GitAnalysisError("not a git repository")
    ELSE LET out == run_git_command(repo)
         IN IF ~out.ok THEN GitAnalysisError("Erro inesperado")
            ELSE LET commits == get_commits(out.out)
                 IN IF ~commits.ok
                    THEN GitAnalysisError("Erro ao analisar repositorio")
                    ELSE IF commits.commits = <<>>
                    THEN GitAnalysisError("Erro inesperado")
                    ELSE LET m == calculate_metrics(commits.commits)
                         IN IF ~m.ok
                            THEN GitAnalysisError("Erro ao analisar repositorio")
                            ELSE m

\* GitStage without the except clause for GitAnalysisError
GitStage_uncaught(repo) ==
    LET r == GitAnalysisService_analyze(repo)
    IN IF r.ok
       THEN [raised |-> FALSE, git_metrics |-> r.metrics, progress |-> <<60>>]
       ELSE [raised |-> TRUE, exc |-> r.exc]

\* IntegratedAnalysisService.analyze, lines 90-99: stage 2.  An error that
\* is a GitAnalysisError leaves git_metrics None, any other one leaves the
\* inner try.
GitStage(repo) ==
    LET r == GitAnalysisService_analyze(repo)
    IN IF r.ok
       THEN [raised |-> FALSE, git_metrics |-> r.metrics, progress |-> <<60>>]
       ELSE IF r.exc = "GitAnalysisError"
       THEN [raised |-> FALSE, git_metrics |-> None, progress |-> <<>>]
       ELSE [raised |-> TRUE, exc |-> r.exc]

\* ------------------------------------------------------------------------
\* Log texts given to the parser
\* ------------------------------------------------------------------------
DateA == <<"2024-01-01", " ", "10:00:00", " ", "-0300">>
DateB == <<"2024-01-02", " ", "23:30:00", " ", "+0000">>
DateC == <<"2024-01-05", " ", "10:00:00", " ", "+0200">>

\* the line printed for --pretty=format:%H|%an|%ai|%s
Header(h, author, date, subject) ==
    <<h, "|", author, "|">> \o date \o <<"|">> \o subject

\* subject "init"
HdrPlain == Header("abc123", "Jane", DateA, <<"init">>)
\* subject "fix"
HdrFix == Header("c0ffee", "Ann", DateB, <<"fix">>)
\* subject "changed api": the word 'changed', no 'file'
HdrChanged == Header("def456", "Bob", DateB, <<"changed", " ", "api">>)
\* subject "changed file"
HdrChangedFile == Header("0a1b2c", "jane", DateC, <<"changed", " ", "file">>)
\* subject "a|b": the separator inside the subject
HdrPipe == Header("9f8e7d", "Bob", DateC, <<"a", "|", "b">>)
\* a header whose date field is not a date
HdrBadDate == Header("777777", "Jane", <<"yesterday">>, <<"init">>)

\* " 3 files changed, 20 insertions(+), 5 deletions(-)"
StatsFull == <<" ", "3", " ", "file", "s", " ", "changed", ",", " ", "2", "0",
               " ", "insertion", "s", "(+)", ",", " ", "5", " ", "deletion",
               "s", "(-)">>
\* " 1 file changed, 5 deletions(-)"
StatsDel == <<" ", "1", " ", "file", " ", "changed", ",", " ", "5", " ",
              "deletion", "s", "(-)">>
\* " 2 files changed, 7 insertions(+)"
StatsIns == <<" ", "2", " ", "file", "s", " ", "changed", ",", " ", "7", " ",
              "insertion", "s", "(+)">>

Blank == <<>>
\* "x|y": the separator with two fields only
Malformed == <<"x", "|", "y">>
\* "x|changed file": two fields, with the words of a stats line
MalformedChanged == <<"x", "|", "changed", " ", "file">>

HeaderLines == {HdrPlain, HdrFix, HdrChanged, HdrChangedFile, HdrPipe, HdrBadDate}
StatsLines == {StatsFull, StatsDel, StatsIns}
LinePool == HeaderLines \cup StatsLines \cup {Blank, Malformed, MalformedChanged}

\* the counts written on a stats line of the pool
StatsOf(l) ==
    CASE l = StatsFull -> [files_changed |-> 3, insertions |-> 20, deletions |-> 5]
      [] l = StatsDel  -> [files_changed |-> 1, insertions |-> 0, deletions |-> 5]
      [] l = StatsIns  -> [files_changed |-> 2, insertions |-> 7, deletions |-> 0]

RECURSIVE Join(_)
\* '\n'.join(lines)
Join(ls) ==
    IF Len(ls) = 1 THEN ls[1] ELSE ls[1] \o <<"\n">> \o Join(Tail(ls))

\* git prints a commit once: no header line occurs twice in a log
NoRepeat(ls) ==
    \A j, k \in 1..Len(ls) : (j # k /\ ls[j] \in HeaderLines) => ls[j] # ls[k]

LineSeqs == {ls \in UNION {[1..n -> LinePool] : n \in 1..MaxLines} : NoRepeat(ls)}

LogTexts == {Join(ls) : ls \in LineSeqs}

\* ------------------------------------------------------------------------
\* Direct use of GitAnalyzer and GitAnalysisService on one log text
\* ------------------------------------------------------------------------
SvcIdle ==
    /\ pc = "idle"
    /\ call = None
    /\ code_metrics = None
    /\ cocomo_results = None
    /\ git_metrics = None
    /\ security_metrics = None
    /\ integrated_metrics = None
    /\ outcome = None
    /\ events = <<>>
    /\ started = <<>>
    /\ calls = 0
    /\ exported = None
    /\ report = None

\* no calculator is under direct use
CalcIdle ==
    /\ input = None
    /\ result = None

\* src/src/ui/app.py, CocomoIIAnalyzerApp.__init__, lines 108-119, and no
\* worker started
TuiIdle ==
    /\ app = [project_path |-> None, cocomo_results |-> None,
              git_metrics |-> None, integrated_metrics |-> None,
              security_metrics |-> None, code_analyzer |-> None,
              ai_insights_generated |-> FALSE, ai_insights_data |-> None]
    /\ workers = <<>>
    /\ displayed = None
    /\ export_file = None

InitGit ==
    /\ log_output \in LogTexts
    /\ parsed = None
    /\ aggregated = None
    /\ serviced = None
    /\ CalcIdle
    /\ SvcIdle
    /\ TuiIdle

\* commits = analyzer.get_commits()
GetCommits ==
    /\ parsed = None
    /\ parsed' = get_commits(log_output)
    /\ UNCHANGED <<log_output, aggregated, serviced, calcVars, svcVars, tuiVars>>

\* metrics = analyzer.calculate_metrics(commits)
CalculateMetrics ==
    /\ parsed # None /\ parsed.ok
    /\ aggregated = None
    /\ aggregated' = calculate_metrics(parsed.commits)
    /\ UNCHANGED <<log_output, parsed, serviced, calcVars, svcVars, tuiVars>>

\* stage 2 of the orchestrator on a repository printing log_output
ServiceAnalyze ==
    /\ serviced = None
    /\ serviced' = GitStage(Repo(TRUE, "ok", log_output))
    /\ UNCHANGED <<log_output, parsed, aggregated, calcVars, svcVars, tuiVars>>

NextGit == GetCommits \/ CalculateMetrics \/ ServiceAnalyze

SpecGit == InitGit /\ [][NextGit]_vars

\* ------------------------------------------------------------------------
\* CodeAnalysisService and CodeAnalyzer.calculate_cocomo2
\* ------------------------------------------------------------------------
\* source trees: what analyze_directory counts
Projects == {[files_count |-> 0, code_lines |-> 0],
             [files_count |-> 1, code_lines |-> 0],
             [files_count |-> 2, code_lines |-> 1200],
             [files_count |-> 3, code_lines |-> 1001]}

\* the project whose size is no whole multiple of a float: 1001 / 1000.0
\* is rounded
OddSizeProject == [files_count |-> 3, code_lines |-> 1001]
RoundProjects == Projects \ {OddSizeProject}

\* code-line counts given to calculate_cocomo2: none, a small project, and
\* both sides of each tier boundary
CodeLineCounts == {0, 1200, 50000, 50001, 300000, 300001}

\* the names of the calibration tiers, keys of `coefficients`
Modes == {"organic", "semi-detached", "embedded"}

\* line 207, coef['a'] * (kloc ** coef['b']): the float value to the nearest
\* tenth of a person-month, for the coefficients of each tier
EffortTenths(mode, code_lines) ==
    CASE code_lines = 0 -> 0
      [] code_lines = 1001 ->
            (CASE mode = "organic" -> 24 [] mode = "semi-detached" -> 30
               [] mode = "embedded" -> 36)
      [] code_lines = 1200 ->
            (CASE mode = "organic" -> 29 [] mode = "semi-detached" -> 37
               [] mode = "embedded" -> 45)
      [] code_lines \in {50000, 50001} ->
            (CASE mode = "organic" -> 1459 [] mode = "semi-detached" -> 2399
               [] mode = "embedded" -> 3936)
      [] code_lines \in {300000, 300001} ->
            (CASE mode = "organic" -> 9576 [] mode = "semi-detached" -> 17844
               [] mode = "embedded" -> 33795)

\* line 210, coef['c'] * (effort ** coef['d']): the float value to the
\* nearest tenth of a month
TimeTenths(mode, code_lines) ==
    CASE code_lines = 0 -> 0
      [] code_lines = 1001 ->
            (CASE mode = "organic" -> 35 [] mode = "semi-detached" -> 37
               [] mode = "embedded" -> 38)
      [] code_lines = 1200 ->
            (CASE mode = "organic" -> 37 [] mode = "semi-detached" -> 39
               [] mode = "embedded" -> 40)
      [] code_lines \in {50000, 50001} ->
            (CASE mode = "organic" -> 166 [] mode = "semi-detached" -> 170
               [] mode = "embedded" -> 169)
      [] code_lines \in {300000, 300001} ->
            (CASE mode = "organic" -> 339 [] mode = "semi-detached" -> 344
               [] mode = "embedded" -> 337)

\* line 228: the salary calculate_cocomo2 multiplies the effort by
avg_salary_month_brl == 15000

\* calculate_cocomo2 with the upper bound of each tier excluded
calculate_cocomo2_exclusive(code_lines, mode) ==
    LET kloc  == Ratio(code_lines, 1000)
        tier  == IF code_lines < 50 * 1000
                 THEN [mode |-> "organic", complexity |-> "Baixa"]
                 ELSE IF code_lines < 300 * 1000
                 THEN [mode |-> "semi-detached", complexity |-> "Media"]
                 ELSE [mode |-> "embedded", complexity |-> "Alta"]
        effort == Ratio(EffortTenths(tier.mode, code_lines), 10)
        time   == Ratio(TimeTenths(tier.mode, code_lines), 10)
        people == IF time.num > 0
                  THEN Ratio(effort.num * time.den, effort.den * time.num)
                  ELSE Ratio(0, 1)
    IN [kind |-> "CocomoResults",
        kloc |-> kloc,
        effort_person_months |-> effort,
        time_months |-> time,
        people_required |-> people,
        maintenance_people |-> Ratio(people.num * 18, people.den * 100),
        expansion_people |-> Ratio(people.num * 30, people.den * 100),
        productivity |-> IF effort.num > 0
                         THEN Ratio(code_lines * effort.den, effort.num)
                         ELSE Ratio(0, 1),
        cost_estimate_brl |-> Ratio(effort.num * avg_salary_month_brl, effort.den),
        complexity_level |-> tier.complexity]

\* CodeAnalyzer.calculate_cocomo2(mode): the tier is chosen from kloc and
\* replaces the argument
calculate_cocomo2(code_lines, mode) ==
    LET kloc  == Ratio(code_lines, 1000)
        tier  == IF code_lines <= 50 * 1000
                 THEN [mode |-> "organic", complexity |-> "Baixa"]
                 ELSE IF code_lines <= 300 * 1000
                 THEN [mode |-> "semi-detached", complexity |-> "Media"]
                 ELSE [mode |-> "embedded", complexity |-> "Alta"]
        effort == Ratio(EffortTenths(tier.mode, code_lines), 10)
        time   == Ratio(TimeTenths(tier.mode, code_lines), 10)
        people == IF time.num > 0
                  THEN Ratio(effort.num * time.den, effort.den * time.num)
                  ELSE Ratio(0, 1)
    IN [kind |-> "CocomoResults",
        kloc |-> kloc,
        effort_person_months |-> effort,
        time_months |-> time,
        people_required |-> people,
        maintenance_people |-> Ratio(people.num * 18, people.den * 100),
        expansion_people |-> Ratio(people.num * 30, people.den * 100),
        productivity |-> IF effort.num > 0
                         THEN Ratio(code_lines * effort.den, effort.num)
                         ELSE Ratio(0, 1),
        cost_estimate_brl |-> Ratio(effort.num * avg_salary_month_brl, effort.den),
        complexity_level |-> tier.complexity]

\* CodeAnalysisService.analyze without the files_count test
CodeAnalysisService_analyze_unchecked(project, salary) ==
    [ok |-> TRUE,
     metrics |-> [kind |-> "CodeMetrics",
                  files_count |-> project.files_count,
                  code_lines |-> project.code_lines],
     cocomo_results |-> calculate_cocomo2(project.code_lines, salary)]

\* CodeAnalysisService.analyze(avg_salary_month_brl): the salary is passed
\* to calculate_cocomo2 as its only argument
CodeAnalysisService_analyze(project, salary) ==
    IF project.files_count = 0
    THEN [ok |-> FALSE, exc |-> "ValueError",
          msg |-> "Nenhum arquivo de codigo encontrado"]
    ELSE [ok |-> TRUE,
          metrics |-> [kind |-> "CodeMetrics",
                       files_count |-> project.files_count,
                       code_lines |-> project.code_lines],
          cocomo_results |-> calculate_cocomo2(project.code_lines, salary)]

\* ------------------------------------------------------------------------
\* SecurityAnalyzer and SecurityAnalysisService
\* ------------------------------------------------------------------------
\* How `semgrep --version` ends: exit status 0, another exit status, the
\* 10 s timeout, no such executable, or another OSError of the spawn
\* (PermissionError for a file that is not executable).
Probes == {"ok", "nonzero", "timeout", "notfound", "oserror"}
\* How the scan ends: JSON with findings, the scan timeout, output that is
\* not JSON, a non-zero exit status with empty output.
Scans == {"findings", "timeout", "badjson", "nonzero"}

Semgreps == {[probe |-> p, scan |-> "findings"] : p \in Probes \ {"ok"}}
            \cup {[probe |-> "ok", scan |-> sc] : sc \in Scans}

\* SecurityAnalyzer.check_semgrep_available
check_semgrep_available(semgrep) ==
    CASE semgrep.probe = "ok"       -> [ok |-> TRUE, val |-> TRUE]
      [] semgrep.probe = "nonzero"  -> [ok |-> TRUE, val |-> FALSE]
      [] semgrep.probe = "timeout"  -> [ok |-> TRUE, val |-> FALSE]
      [] semgrep.probe = "notfound" -> [ok |-> TRUE, val |-> FALSE]
      [] semgrep.probe = "oserror"  -> [ok |-> FALSE, exc |-> "PermissionError"]

SecurityMetrics(n) == [kind |-> "SecurityMetrics", total_findings |-> n]

\* SecurityAnalyzer.analyze
SecurityAnalyzer_analyze(semgrep) ==
    LET avail == check_semgrep_available(semgrep)
    IN IF ~avail.ok THEN avail
       ELSE IF ~avail.val THEN [ok |-> FALSE, exc |-> "RuntimeError"]
       ELSE CASE semgrep.scan = "findings" -> [ok |-> TRUE, metrics |-> SecurityMetrics(2)]
              [] semgrep.scan = "nonzero"  -> [ok |-> TRUE, metrics |-> SecurityMetrics(0)]
              [] semgrep.scan = "timeout"  -> [ok |-> FALSE, exc |-> "RuntimeError"]
              [] semgrep.scan = "badjson"  -> [ok |-> FALSE, exc |-> "RuntimeError"]

\* SecurityAnalysisService.analyze: every exception becomes a
\* SecurityAnalysisError
SecurityAnalysisService_analyze(semgrep) ==
    LET avail == check_semgrep_available(semgrep)
    IN IF ~avail.ok \/ ~avail.val
       THEN [ok |-> FALSE, exc |-> "SecurityAnalysisError"]
       ELSE LET r == SecurityAnalyzer_analyze(semgrep)
            IN IF r.ok THEN r ELSE [ok |-> FALSE, exc |-> "SecurityAnalysisError"]

\* IntegratedAnalysisService.analyze, lines 106-124: the body of stage 3
\* when run_security_analysis is set.  status is "done", "skipped", "failed"
\* or, for an exception that is no SecurityAnalysisError, "raised".
SecurityStage(semgrep, current) ==
    LET avail == check_semgrep_available(semgrep)
    IN IF ~avail.ok
       THEN [status |-> "raised", exc |-> avail.exc, security_metrics |-> current]
       ELSE IF ~avail.val
       THEN [status |-> "skipped", security_metrics |-> current]
       ELSE LET r == SecurityAnalysisService_analyze(semgrep)
            IN IF r.ok
               THEN [status |-> "done", security_metrics |-> r.metrics]
               ELSE IF r.exc = "SecurityAnalysisError"
               THEN [status |-> "failed", security_metrics |-> current]
               ELSE [status |-> "raised", exc |-> r.exc, security_metrics |-> current]

\* ------------------------------------------------------------------------
\* IntegratedAnalysisService._calculate_integrated_metrics
\* ------------------------------------------------------------------------
Zero == Ratio(0, 1)

\* analysis_config.WORKING_DAYS_PER_MONTH
WORKING_DAYS_PER_MONTH == 22

RECURSIVE GCD(_, _)
GCD(a, b) == IF b = 0 THEN a ELSE GCD(b, a % b)

\* the same quotient in lowest terms; a quotient by 0 is left as it is
Norm(r) ==
    IF r.den = 0 \/ r.num = 0 THEN Ratio(r.num, IF r.den = 0 THEN 0 ELSE 1)
    ELSE Ratio(r.num \div GCD(r.num, r.den), r.den \div GCD(r.num, r.den))

\* a < b, a + b and Python's min(a, b) on quotients
RLess(a, b) == a.num * b.den < b.num * a.den
RPlus(a, b) ==
    LET x == Norm(a)
        y == Norm(b)
    IN Norm(Ratio(x.num * y.den + y.num * x.den, x.den * y.den))
RMin(a, b) == IF RLess(b, a) THEN b ELSE a

\* The rounding of (code_lines / 1000.0) * 1000 / (total_lines / total_commits)
\* in double arithmetic, in units in the last place of the exact quotient,
\* for the sizes the model uses: 1001 / 1000.0 * 1000 is 1000.9999999999999,
\* so 1001 lines give the float next below the number of commits; for 1200,
\* 50000, 50001, 300000 and 300001 lines every step is exact.
RoundingUlps(kloc, lines_per_commit) ==
    IF kloc = Ratio(1001, 1000) /\ lines_per_commit.num = 1001 THEN 0 - 1 ELSE 0

\* commits_needed dividing whenever there are commits
commits_needed_unguarded(kloc, lines_per_commit) ==
    [num |-> kloc.num * 1000 * lines_per_commit.den,
     den |-> kloc.den * lines_per_commit.num,
     ulps |-> RoundingUlps(kloc, lines_per_commit)]

\* commits_needed dividing the size in thousands of lines
commits_needed_in_kloc(kloc, lines_per_commit) ==
    IF lines_per_commit.num > 0
    THEN [num |-> kloc.num * lines_per_commit.den,
          den |-> kloc.den * lines_per_commit.num,
          ulps |-> RoundingUlps(kloc, lines_per_commit)]
    ELSE Zero

\* lines 187-190: cocomo.kloc * 1000 / lines_per_commit, 0 when
\* lines_per_commit is 0.  num / den is the exact quotient; ulps tells by
\* how many units in the last place the float that Python computes differs
\* from it.
commits_needed(kloc, lines_per_commit) ==
    IF lines_per_commit.num > 0
    THEN [num |-> kloc.num * 1000 * lines_per_commit.den,
          den |-> kloc.den * lines_per_commit.num,
          ulps |-> RoundingUlps(kloc, lines_per_commit)]
    ELSE Zero

\* productivity_score counted from 0 instead of the base of 50
productivity_score_no_base(velocity_ratio, commit_efficiency, complexity_level) ==
    LET velocity_score   == RMin(Ratio(velocity_ratio.num * 25, velocity_ratio.den),
                                 Ratio(25, 1))
        efficiency_score == RMin(Ratio(commit_efficiency.num * 15,
                                       commit_efficiency.den * 100),
                                 Ratio(15, 1))
        complexity_bonus == IF complexity_level = "Alta" THEN Ratio(10, 1)
                            ELSE IF complexity_level = "Media" THEN Ratio(5, 1)
                            ELSE Zero
    IN RPlus(RPlus(velocity_score, efficiency_score), complexity_bonus)

\* the score with the velocity term left without its ceiling
productivity_score_unclamped(velocity_ratio, commit_efficiency, complexity_level) ==
    LET base_score       == Ratio(50, 1)
        velocity_score   == Ratio(velocity_ratio.num * 25, velocity_ratio.den)
        efficiency_score == RMin(Ratio(commit_efficiency.num * 15,
                                       commit_efficiency.den * 100),
                                 Ratio(15, 1))
        complexity_bonus == IF complexity_level = "Alta" THEN Ratio(10, 1)
                            ELSE IF complexity_level = "Media" THEN Ratio(5, 1)
                            ELSE Zero
    IN RPlus(RPlus(RPlus(base_score, velocity_score), efficiency_score),
             complexity_bonus)

\* lines 219-231: developer_productivity_score
productivity_score(velocity_ratio, commit_efficiency, complexity_level) ==
    LET base_score       == Ratio(50, 1)
        velocity_score   == RMin(Ratio(velocity_ratio.num * 25, velocity_ratio.den),
                                 Ratio(25, 1))
        efficiency_score == RMin(Ratio(commit_efficiency.num * 15,
                                       commit_efficiency.den * 100),
                                 Ratio(15, 1))
        complexity_bonus == IF complexity_level = "Alta" THEN Ratio(10, 1)
                            ELSE IF complexity_level = "Media" THEN Ratio(5, 1)
                            ELSE Zero
    IN RPlus(RPlus(RPlus(base_score, velocity_score), efficiency_score),
             complexity_bonus)

_calculate_integrated_metrics(cocomo, git, total_lines) ==
    LET lines_per_commit ==
            IF git.total_commits > 0 THEN Ratio(total_lines, git.total_commits)
            ELSE Zero
        actual_velocity ==
            IF git.repository_age_days > 0
            THEN Ratio(total_lines, git.repository_age_days) ELSE Zero
        estimated_velocity ==
            IF cocomo.productivity.num > 0
            THEN Ratio(cocomo.productivity.num,
                       cocomo.productivity.den * WORKING_DAYS_PER_MONTH)
            ELSE Zero
        velocity_ratio ==
            IF estimated_velocity.num > 0
            THEN Ratio(actual_velocity.num * estimated_velocity.den,
                       actual_velocity.den * estimated_velocity.num)
            ELSE Zero
        total_changes == git.total_insertions + git.total_deletions
        commit_efficiency ==
            IF total_changes > 0 THEN Ratio(total_lines * 100, total_changes)
            ELSE Zero
        change_percentage_per_commit ==
            IF total_lines > 0
            THEN Ratio(git.avg_changes_per_commit.num * 100,
                       git.avg_changes_per_commit.den * total_lines)
            ELSE Zero
        commits_per_month ==
            IF git.repository_age_days > 0
            THEN Ratio(git.total_commits * 30, git.repository_age_days)
            ELSE Zero
    IN [kind |-> "IntegratedMetrics",
        cocomo_kloc |-> cocomo.kloc,
        cocomo_effort |-> cocomo.effort_person_months,
        cocomo_time_months |-> cocomo.time_months,
        cocomo_people |-> cocomo.people_required,
        cocomo_cost_brl |-> cocomo.cost_estimate_brl,
        total_commits |-> git.total_commits,
        avg_changes_per_commit |-> git.avg_changes_per_commit,
        commits_per_month |-> commits_per_month,
        lines_per_commit |-> lines_per_commit,
        commits_needed_to_rebuild |-> commits_needed(cocomo.kloc, lines_per_commit),
        actual_velocity |-> actual_velocity,
        estimated_velocity |-> estimated_velocity,
        velocity_ratio |-> velocity_ratio,
        commit_efficiency |-> commit_efficiency,
        change_percentage_per_commit |-> change_percentage_per_commit,
        developer_productivity_score |->
            productivity_score(velocity_ratio, commit_efficiency,
                               cocomo.complexity_level)]

\* ------------------------------------------------------------------------
\* IntegratedAnalyzer.export_json and generate_pdf_report
\* ------------------------------------------------------------------------
\* the JSON object written for a bundle, one key per field that is present
JsonOf(cocomo, git, integrated, security) ==
    LET keys == {"project_name", "project_path", "analysis_type", "cocomo",
                 "generated_at"}
                \cup (IF git # None THEN {"git"} ELSE {})
                \cup (IF integrated # None THEN {"integrated"} ELSE {})
                \cup (IF security # None THEN {"security"} ELSE {})
    IN [k \in keys |->
          CASE k = "cocomo" -> cocomo
            [] k = "git" -> git
            [] k = "integrated" -> integrated
            [] k = "security" -> security
            [] OTHER -> k]

\* export_json(cocomo, git, integrated, output_path, security)
export_json(cocomo, git, integrated, security) ==
    IF git = None THEN [ok |-> FALSE, exc |-> "AttributeError"]
    ELSE IF integrated = None THEN [ok |-> FALSE, exc |-> "TypeError"]
    ELSE [ok |-> TRUE, data |-> JsonOf(cocomo, git, integrated, security)]

\* generate_pdf_report(json_file_path) on a file holding data
generate_pdf_report(data) ==
    IF {"generated_at", "cocomo", "git", "integrated"} \subseteq DOMAIN data
    THEN [ok |-> TRUE]
    ELSE [ok |-> FALSE, exc |-> "KeyError"]

\* ------------------------------------------------------------------------
\* IntegratedAnalysisService.analyze
\* ------------------------------------------------------------------------
EmptyLog == <<>>
\* one commit with its stats line
OneCommitLog == Join(<<HdrPlain, StatsFull>>)
\* two commits by two authors, three days apart
TwoCommitLog == Join(<<HdrPipe, StatsIns, HdrPlain>>)
\* a header whose date cannot be parsed
BadDateLog == Join(<<HdrBadDate>>)

\* repositories the orchestrator is run on
Repos == {Repo(FALSE, "ok", EmptyLog),
          Repo(TRUE, "missing", EmptyLog),
          Repo(TRUE, "failed", EmptyLog),
          Repo(TRUE, "ok", EmptyLog),
          Repo(TRUE, "ok", OneCommitLog),
          Repo(TRUE, "ok", TwoCommitLog),
          Repo(TRUE, "ok", BadDateLog)}

\* monthly salaries passed to analyze: the default and its double
Salaries == {15000, 30000}

\* the semgrep environment recorded for a call that does not use it
NoSemgrep == [probe |-> "notfound", scan |-> "findings"]

\* A progress callback: Python's None, a callable that records what it is
\* given, or a callable that raises when it is called with percent `at`.
Callback(kind, at) == [kind |-> kind, at |-> at]

\* percents at which a failing callback fails: its first call, its call
\* inside the try block of the Git stage, its last call
RaisePoints == {10, 60, 100}

Callbacks == {Callback("none", 0), Callback("records", 0)}
             \cup {Callback("raises", p) : p \in RaisePoints}

\* _update_progress passing the percent as a per-mille value
_update_progress_permille(callback, evs, percent) ==
    IF callback.kind = "none" THEN evs ELSE Append(evs, percent * 10)

\* _update_progress(callback, percent, message): the percents passed to the
\* callback so far
_update_progress(callback, evs, percent) ==
    IF callback.kind = "none" THEN evs ELSE Append(evs, percent)

\* line 163: callback(percent, message) raises
CallbackRaises(callback, percent) ==
    callback.kind = "raises" /\ callback.at = percent

\* the arguments of one analyze call and the environment it runs in
Call(project, repo, salary, security, callback) ==
    [project |-> project, repo |-> repo, avg_salary_month_brl |-> salary,
     run_security_analysis |-> security.run, semgrep |-> security.semgrep,
     progress_callback |-> callback]

\* run_security_analysis unset, or set in each semgrep environment
SecurityDisabled == [run |-> FALSE, semgrep |-> NoSemgrep]
SecurityEnvs == {SecurityDisabled} \cup {[run |-> TRUE, semgrep |-> sg] : sg \in Semgreps}

\* The calls made on the instance: every project, repository and security
\* environment with the default salary and a callback that returns; the
\* doubled salary on every project and repository; a failing callback on
\* every project and repository, without security and with a scan that
\* finds something; the project of 1001 lines on every repository, without
\* security.  The first three families take the projects from
\* RoundProjects.
Calls ==
    {Call(p, r, 15000, sec, cb) :
        p \in RoundProjects, r \in Repos, sec \in SecurityEnvs,
        cb \in {Callback("none", 0), Callback("records", 0)}}
    \cup {Call(p, r, sal, SecurityDisabled, Callback("none", 0)) :
             p \in RoundProjects, r \in Repos, sal \in Salaries}
    \cup {Call(p, r, 15000, sec, cb) :
             p \in RoundProjects, r \in Repos,
             sec \in {SecurityDisabled,
                      [run |-> TRUE, semgrep |-> [probe |-> "ok", scan |-> "findings"]]},
             cb \in Callbacks}
    \cup {Call(OddSizeProject, r, 15000, SecurityDisabled, Callback("none", 0)) :
             r \in Repos}

\* the tuple returned at lines 144-149
Returned ==
    [kind |-> "returned",
     cocomo_results |-> cocomo_results',
     git_metrics |-> git_metrics',
     integrated_metrics |-> integrated_metrics',
     security_metrics |-> security_metrics']

\* analyze without the except clause of lines 151-153: the exception leaves
\* as it was raised
Raised_unconverted(cause) == [kind |-> "raised", exc |-> cause, cause |-> cause]

\* lines 151-153: every exception leaves analyze as a CocomoAnalysisError
Raised(cause) == [kind |-> "raised", exc |-> "CocomoAnalysisError", cause |-> cause]

InitSvc ==
    /\ log_output = EmptyLog
    /\ parsed = None
    /\ aggregated = None
    /\ serviced = None
    /\ CalcIdle
    /\ SvcIdle
    /\ TuiIdle

\* analyze(...) is called: lines 82-84, the first progress report
AnalyzeStart ==
    /\ pc \in {"idle", "done"}
    /\ calls < MaxCalls
    /\ \E c \in Calls :
          /\ call' = c
          /\ events' = _update_progress(c.progress_callback, <<>>, 10)
          /\ IF CallbackRaises(c.progress_callback, 10)
             THEN pc' = "done" /\ outcome' = Raised("callback")
             ELSE pc' = "code" /\ outcome' = None
    /\ calls' = calls + 1
    /\ started' = <<"code">>
    /\ exported' = None
    /\ report' = None
    /\ UNCHANGED <<code_metrics, cocomo_results, git_metrics, security_metrics,
                   integrated_metrics, gitVars, tuiVars>>

\* lines 85-88, stage 1, when no source file is found
AnalyzeCodeFails ==
    /\ pc = "code"
    /\ ~CodeAnalysisService_analyze(call.project, call.avg_salary_month_brl).ok
    /\ outcome' = Raised(CodeAnalysisService_analyze(
                             call.project, call.avg_salary_month_brl).exc)
    /\ pc' = "done"
    /\ UNCHANGED <<call, code_metrics, cocomo_results, git_metrics,
                   security_metrics, integrated_metrics, events, started, calls,
                   exported, report, gitVars, tuiVars>>

\* lines 85-91, stage 1 and the entry of stage 2
AnalyzeCode ==
    /\ pc = "code"
    /\ LET r  == CodeAnalysisService_analyze(call.project,
                                             call.avg_salary_month_brl)
           cb == call.progress_callback
       IN /\ r.ok
          /\ code_metrics' = r.metrics
          /\ cocomo_results' = r.cocomo_results
          /\ IF CallbackRaises(cb, 30)
             THEN /\ events' = _update_progress(cb, events, 30)
                  /\ started' = started
                  /\ pc' = "done" /\ outcome' = Raised("callback")
             ELSE /\ events' = _update_progress(cb,
                                   _update_progress(cb, events, 30), 35)
                  /\ started' = Append(started, "git")
                  /\ IF CallbackRaises(cb, 35)
                     THEN pc' = "done" /\ outcome' = Raised("callback")
                     ELSE pc' = "git" /\ outcome' = outcome
    /\ UNCHANGED <<call, git_metrics, security_metrics, integrated_metrics,
                   calls, exported, report, gitVars, tuiVars>>

\* lines 92-99, stage 2
AnalyzeGit ==
    /\ pc = "git"
    /\ \E r \in {GitStage(call.repo)}, cb \in {call.progress_callback} :
          IF r.raised
          THEN /\ outcome' = Raised(r.exc)
               /\ pc' = "done"
               /\ UNCHANGED <<git_metrics, events, started>>
          ELSE /\ git_metrics' = r.git_metrics
               /\ events' = IF r.progress = <<>> THEN events
                            ELSE _update_progress(cb, events, r.progress[1])
               /\ IF r.progress # <<>> /\ CallbackRaises(cb, r.progress[1])
                  THEN /\ started' = started
                       /\ pc' = "done" /\ outcome' = Raised("callback")
                  ELSE /\ started' = Append(started, "security")
                       /\ pc' = "security" /\ outcome' = outcome
    /\ UNCHANGED <<call, code_metrics, cocomo_results, security_metrics,
                   integrated_metrics, calls, exported, report, gitVars, tuiVars>>

\* lines 125-126, stage 3 with run_security_analysis unset
AnalyzeSecurityDisabled ==
    /\ pc = "security"
    /\ ~call.run_security_analysis
    /\ events' = _update_progress(call.progress_callback, events, 80)
    /\ IF CallbackRaises(call.progress_callback, 80)
       THEN pc' = "done" /\ outcome' = Raised("callback")
       ELSE pc' = "integrated" /\ outcome' = outcome
    /\ UNCHANGED <<call, code_metrics, cocomo_results, git_metrics,
                   security_metrics, integrated_metrics, started,
                   calls, exported, report, gitVars, tuiVars>>

\* lines 102-124, stage 3 ending in its try block: scan done, skipped, failed
AnalyzeSecurity ==
    /\ pc = "security"
    /\ call.run_security_analysis
    /\ ~CallbackRaises(call.progress_callback, 62)
    /\ LET r == SecurityStage(call.semgrep, security_metrics)
       IN /\ r.status # "raised"
          /\ security_metrics' = r.security_metrics
    /\ events' = _update_progress(call.progress_callback,
                     _update_progress(call.progress_callback, events, 62), 80)
    /\ IF CallbackRaises(call.progress_callback, 80)
       THEN pc' = "done" /\ outcome' = Raised("callback")
       ELSE pc' = "integrated" /\ outcome' = outcome
    /\ UNCHANGED <<call, code_metrics, cocomo_results, git_metrics,
                   integrated_metrics, started, calls, exported,
                   report, gitVars, tuiVars>>

\* lines 102-108 and 151-153, stage 3 left by an exception that is no
\* SecurityAnalysisError: from the callback, or from the probe of semgrep
AnalyzeSecurityRaises ==
    /\ pc = "security"
    /\ call.run_security_analysis
    /\ LET r == SecurityStage(call.semgrep, security_metrics)
       IN IF CallbackRaises(call.progress_callback, 62)
          THEN outcome' = Raised("callback")
          ELSE r.status = "raised" /\ outcome' = Raised(r.exc)
    /\ events' = _update_progress(call.progress_callback, events, 62)
    /\ pc' = "done"
    /\ UNCHANGED <<call, code_metrics, cocomo_results, git_metrics,
                   security_metrics, integrated_metrics, started, calls,
                   exported, report, gitVars, tuiVars>>

\* AnalyzeIntegrated keeping the integrated metrics the instance already has
AnalyzeIntegrated_cached ==
    /\ pc = "integrated"
    /\ git_metrics # None
    /\ started' = Append(started, "integrated")
    /\ UNCHANGED <<call, code_metrics, cocomo_results, git_metrics,
                   security_metrics, calls, exported, report, gitVars, tuiVars>>
    /\ LET cb == call.progress_callback
       IN IF CallbackRaises(cb, 85)
          THEN /\ events' = _update_progress(cb, events, 85)
               /\ integrated_metrics' = integrated_metrics
               /\ outcome' = Raised("callback")
          ELSE /\ events' = _update_progress(cb,
                                _update_progress(cb, events, 85), 100)
               /\ integrated_metrics' =
                     IF integrated_metrics # None THEN integrated_metrics
                     ELSE _calculate_integrated_metrics(cocomo_results,
                              git_metrics, code_metrics.code_lines)
               /\ outcome' = IF CallbackRaises(cb, 100)
                             THEN Raised("callback") ELSE Returned
    /\ pc' = "done"

\* lines 129-138 and 143-149, stage 4 with Git metrics, and the return
AnalyzeIntegrated ==
    /\ pc = "integrated"
    /\ git_metrics # None
    /\ started' = Append(started, "integrated")
    /\ UNCHANGED <<call, code_metrics, cocomo_results, git_metrics,
                   security_metrics, calls, exported, report, gitVars, tuiVars>>
    /\ LET cb == call.progress_callback
       IN IF CallbackRaises(cb, 85)
          THEN /\ events' = _update_progress(cb, events, 85)
               /\ integrated_metrics' = integrated_metrics
               /\ outcome' = Raised("callback")
          ELSE /\ events' = _update_progress(cb,
                                _update_progress(cb, events, 85), 100)
               /\ integrated_metrics' =
                     _calculate_integrated_metrics(cocomo_results, git_metrics,
                                                   code_metrics.code_lines)
               /\ outcome' = IF CallbackRaises(cb, 100)
                             THEN Raised("callback") ELSE Returned
    /\ pc' = "done"

\* AnalyzeWithoutGit returning without the last progress report
AnalyzeWithoutGit_silent ==
    /\ pc = "integrated"
    /\ git_metrics = None
    /\ events' = events
    /\ UNCHANGED <<call, code_metrics, cocomo_results, git_metrics,
                   security_metrics, integrated_metrics, started, calls,
                   exported, report, gitVars, tuiVars>>
    /\ outcome' = Returned
    /\ pc' = "done"

\* lines 139-149, stage 4 skipped, and the return
AnalyzeWithoutGit ==
    /\ pc = "integrated"
    /\ git_metrics = None
    /\ events' = _update_progress(call.progress_callback, events, 100)
    /\ UNCHANGED <<call, code_metrics, cocomo_results, git_metrics,
                   security_metrics, integrated_metrics, started, calls,
                   exported, report, gitVars, tuiVars>>
    /\ outcome' = IF CallbackRaises(call.progress_callback, 100)
                  THEN Raised("callback") ELSE Returned
    /\ pc' = "done"

\* the caller exports the returned bundle (git_analyzer.main, lines 524-526)
ExportJson ==
    /\ pc = "done"
    /\ outcome.kind = "returned"
    /\ exported = None
    /\ exported' = export_json(outcome.cocomo_results, outcome.git_metrics,
                               outcome.integrated_metrics,
                               outcome.security_metrics)
    /\ UNCHANGED <<pc, call, code_metrics, cocomo_results, git_metrics,
                   security_metrics, integrated_metrics, outcome, events,
                   started, calls, report, gitVars, tuiVars>>

\* the report generator is run on a JSON report of the returned bundle
GeneratePdfReport ==
    /\ pc = "done"
    /\ outcome.kind = "returned"
    /\ report = None
    /\ report' = generate_pdf_report(
                    JsonOf(outcome.cocomo_results, outcome.git_metrics,
                           outcome.integrated_metrics, outcome.security_metrics))
    /\ UNCHANGED <<pc, call, code_metrics, cocomo_results, git_metrics,
                   security_metrics, integrated_metrics, outcome, events,
                   started, calls, exported, gitVars, tuiVars>>

Next ==
    \/ AnalyzeStart
    \/ AnalyzeCodeFails
    \/ AnalyzeCode
    \/ AnalyzeGit
    \/ AnalyzeSecurityDisabled
    \/ AnalyzeSecurity
    \/ AnalyzeSecurityRaises
    \/ AnalyzeIntegrated
    \/ AnalyzeWithoutGit
    \/ ExportJson
    \/ GeneratePdfReport

Spec == InitSvc /\ [][Next]_vars

\* ------------------------------------------------------------------------
\* Command-line entry points.  The value of an entry point is the exit
\* status of the process: the argument of sys.exit, 0 when main returns.
\* ------------------------------------------------------------------------
\* src/main.py, main, lines 358-395
main(path, project) ==
    IF path = "missing" THEN 1
    ELSE IF path = "file" THEN 1
    ELSE IF project.files_count = 0 THEN 0
    ELSE 0

\* IntegratedAnalyzer(path).analyze() with its default arguments on a new
\* instance: the salary is 15000, the security stage is enabled and the
\* callback, which updates a progress display, returns
IntegratedAnalyzer_analyze(project, repo, semgrep) ==
    CHOOSE r \in
        {IF ~code.ok THEN Raised(code.exc)
         ELSE IF git.raised THEN Raised(git.exc)
         ELSE IF sec.status = "raised" THEN Raised(sec.exc)
         ELSE [kind |-> "returned",
               cocomo_results |-> code.cocomo_results,
               git_metrics |-> git.git_metrics,
               integrated_metrics |->
                  IF git.git_metrics # None
                  THEN _calculate_integrated_metrics(
                           code.cocomo_results, git.git_metrics,
                           code.metrics.code_lines)
                  ELSE None,
               security_metrics |-> sec.security_metrics] :
            code \in {CodeAnalysisService_analyze(project, 15000)},
            git \in {GitStage(repo)},
            sec \in {SecurityStage(semgrep, None)}} : TRUE

\* src/src/git_analyzer.py, main, lines 484-535
git_analyzer_main(path, project, repo, semgrep, export) ==
    IF path = "missing" THEN 1
    ELSE IF path = "file" THEN 1
    ELSE CHOOSE code \in
        {IF r.kind = "raised" THEN 1
         ELSE IF export /\ ~export_json(r.cocomo_results, r.git_metrics,
                                        r.integrated_metrics,
                                        r.security_metrics).ok
         THEN 1
         ELSE 0 :
            r \in {IntegratedAnalyzer_analyze(project, repo, semgrep)}} : TRUE

\* ------------------------------------------------------------------------
\* Direct use of the calculators and of the entry points: calculate_metrics,
\* calculate_cocomo2, _calculate_integrated_metrics and the two main
\* functions, each applied once to one input
\* ------------------------------------------------------------------------
\* a commit record as get_commits builds it: total_changes is the sum
Commit(h, author, day, sec, f, i, d) ==
    CommitInfo(<<h>>, <<author>>, [day |-> day, sec |-> sec], <<"msg">>, f, i, d,
               i + d)

\* 2024-01-01 10:00, 2 files, 10 insertions, 5 deletions
CommitA == Commit("a1", "Jane", 1, 36000, 2, 10, 5)
\* 2024-01-01 23:30, the same day, 13 h 30 min later
CommitB == Commit("b2", "Bob", 1, 84600, 1, 0, 5)
\* 2024-01-02 10:00, 10 h 30 min after CommitB, 24 h after CommitA
CommitC == Commit("c3", "jane", 2, 36000, 3, 20, 5)
\* 2024-01-05 10:00, no file touched
CommitD == Commit("d4", "Jane", 5, 36000, 0, 0, 0)

CommitPool == {CommitA, CommitB, CommitC, CommitD}

\* lists of distinct commits, in any order, the empty list included
CommitSeqs ==
    {cs \in UNION {[1..n -> CommitPool] : n \in 0..MaxCommits} :
        \A j, k \in 1..Len(cs) : j # k => cs[j] # cs[k]}

MetricsInputs == {[kind |-> "calculate_metrics", commits |-> cs] : cs \in CommitSeqs}

CocomoInputs ==
    {[kind |-> "calculate_cocomo2", code_lines |-> n, mode |-> m] :
        n \in CodeLineCounts, m \in Modes}

\* a CostEstimate with the given size, productivity and tier
CostEstimate(kloc, productivity, complexity_level) ==
    [kind |-> "CocomoResults", kloc |-> kloc, effort_person_months |-> Zero,
     time_months |-> Zero, people_required |-> Zero, maintenance_people |-> Zero,
     expansion_people |-> Zero, productivity |-> productivity,
     cost_estimate_brl |-> Zero, complexity_level |-> complexity_level]

\* productivity 4400 lines a person-month is 200 lines a working day
CostEstimates ==
    {CostEstimate(k, p, c) : k \in {Zero, Ratio(1200, 1000)},
                             p \in {Zero, Ratio(4400, 1)},
                             c \in {"Baixa", "Media", "Alta"}}

\* the fields of a GitMetrics that _calculate_integrated_metrics reads
GitSummary(commits, age, ins, del, avg) ==
    [kind |-> "GitMetrics", total_commits |-> commits,
     repository_age_days |-> age, total_insertions |-> ins,
     total_deletions |-> del, avg_changes_per_commit |-> avg]

GitSummaries ==
    {GitSummary(n, age, ins, del, avg) :
        n \in {0, 3}, age \in {0, 1, 10}, ins \in {0, 2000}, del \in {0, 100},
        avg \in {Zero, Ratio(700, 1)}}

IntegratedInputs ==
    {[kind |-> "_calculate_integrated_metrics", cocomo |-> c, git |-> g,
      total_lines |-> n] :
        c \in CostEstimates, g \in GitSummaries, n \in {0, 1200}}

\* what the path argument of an entry point names
PathKinds == {"missing", "file", "dir"}

\* runs of `python main.py <path>`
MainInputs ==
    {[kind |-> "main", path |-> p, project |-> pr] :
        p \in PathKinds, pr \in Projects}

\* runs of `python git_analyzer.py <path> [--export FILE]`
GitAnalyzerMainInputs ==
    {[kind |-> "git_analyzer_main", path |-> p, project |-> pr, repo |-> r,
      semgrep |-> sg, export |-> e] :
        p \in PathKinds, pr \in Projects, r \in Repos, sg \in Semgreps,
        e \in BOOLEAN}

CalcInputs ==
    MetricsInputs \cup CocomoInputs \cup IntegratedInputs \cup MainInputs
    \cup GitAnalyzerMainInputs

\* the fields of a result that hold a quotient
Quotients(r) ==
    {f \in DOMAIN r : f \notin {"kind", "complexity_level", "total_commits"}}

\* how a calculator call ends: a quotient with denominator 0 is Python's
\* ZeroDivisionError, raised instead of the result
CallOf(r) ==
    IF \E f \in Quotients(r) : r[f].den = 0
    THEN [ok |-> FALSE, exc |-> "ZeroDivisionError"]
    ELSE [ok |-> TRUE, val |-> r]

InitCalc ==
    /\ input \in CalcInputs
    /\ result = None
    /\ log_output = EmptyLog
    /\ parsed = None
    /\ aggregated = None
    /\ serviced = None
    /\ SvcIdle
    /\ TuiIdle

\* GitAnalyzer.calculate_metrics(commits)
CalcMetrics ==
    /\ input.kind = "calculate_metrics"
    /\ result = None
    /\ result' = calculate_metrics(input.commits)
    /\ UNCHANGED <<input, log_output, parsed, aggregated, serviced, svcVars, tuiVars>>

\* CodeAnalyzer.calculate_cocomo2(mode) on an analyzer that counted
\* code_lines lines
CalcCocomo ==
    /\ input.kind = "calculate_cocomo2"
    /\ result = None
    /\ result' = CallOf(calculate_cocomo2(input.code_lines, input.mode))
    /\ UNCHANGED <<input, log_output, parsed, aggregated, serviced, svcVars, tuiVars>>

\* IntegratedAnalysisService._calculate_integrated_metrics(cocomo, git,
\* total_lines)
CalcIntegrated ==
    /\ input.kind = "_calculate_integrated_metrics"
    /\ result = None
    /\ result' = CallOf(_calculate_integrated_metrics(input.cocomo, input.git,
                                                      input.total_lines))
    /\ UNCHANGED <<input, log_output, parsed, aggregated, serviced, svcVars, tuiVars>>

\* src/main.py run as a program
RunMain ==
    /\ input.kind = "main"
    /\ result = None
    /\ result' = [kind |-> "exit", code |-> main(input.path, input.project)]
    /\ UNCHANGED <<input, log_output, parsed, aggregated, serviced, svcVars, tuiVars>>

\* src/src/git_analyzer.py run as a program
RunGitAnalyzerMain ==
    /\ input.kind = "git_analyzer_main"
    /\ result = None
    /\ result' = [kind |-> "exit",
                  code |-> git_analyzer_main(input.path, input.project,
                                             input.repo, input.semgrep,
                                             input.export)]
    /\ UNCHANGED <<input, log_output, parsed, aggregated, serviced, svcVars, tuiVars>>

NextCalc ==
    \/ CalcMetrics
    \/ CalcCocomo
    \/ CalcIntegrated
    \/ RunMain
    \/ RunGitAnalyzerMain

SpecCalc == InitCalc /\ [][NextCalc]_vars

\* ------------------------------------------------------------------------
\* Properties of get_commits and calculate_metrics
\* ------------------------------------------------------------------------
\* the lines of the text under analysis
Lines == Split(log_output, "\n")

\* headers 'hash|author|date|subject' with a date and no separator in the
\* subject
SimpleHeaders == {HdrPlain, HdrFix, HdrChanged, HdrChangedFile}
\* those whose subject has none of the words of a stats line
PlainHeaders == {HdrPlain, HdrFix}
MalformedLines == {Malformed, MalformedChanged}

\* the hash field of a header line
HashOfLine(l) == Split(l, "|")[1]

HashesOfLines(ls, hdrs) ==
    LET hs == SelectSeq(ls, LAMBDA l : l \in hdrs)
    IN [k \in 1..Len(hs) |-> HashOfLine(hs[k])]

HashesOfCommits(cs) == [k \in 1..Len(cs) |-> cs[k].hash]

\* header lines of hdrs, each optionally followed by one stats line
HeadersAndStats(ls, hdrs) ==
    \A k \in 1..Len(ls) :
        \/ ls[k] \in hdrs
        \/ ls[k] \in StatsLines /\ k > 1 /\ ls[k - 1] \in hdrs

RECURSIVE AfterSeparators(_, _)
\* what follows the n-th separator of a line
AfterSeparators(l, n) ==
    IF n = 0 \/ l = <<>> THEN l
    ELSE AfterSeparators(Tail(l), IF Head(l) = "|" THEN n - 1 ELSE n)

\* C4: for a text of header lines, each optionally followed by one stats
\* line, get_commits returns exactly one record per header line, in the order
\* of the header lines.
C4_OneRecordPerHeader ==
    (parsed # None /\ HeadersAndStats(Lines, SimpleHeaders))
        => /\ parsed.ok
           /\ HashesOfCommits(parsed.commits) = HashesOfLines(Lines, SimpleHeaders)

\* C7: a line with the separator and the wrong number of fields never aborts
\* get_commits; it yields no record and the commits before and after it are
\* all returned.
C7_MalformedLineSkipped ==
    (/\ parsed # None
     /\ \A k \in 1..Len(Lines) :
            \/ Lines[k] \in PlainHeaders \cup MalformedLines
            \/ Lines[k] \in StatsLines /\ k > 1 /\ Lines[k - 1] \in PlainHeaders
     /\ \E k \in 1..Len(Lines) : Lines[k] \in MalformedLines)
        => /\ parsed.ok
           /\ HashesOfCommits(parsed.commits) = HashesOfLines(Lines, PlainHeaders)

\* C8: the message of a record is all that follows the third separator of
\* its header line.
C8_SubjectIsRemainder ==
    (parsed # None /\ parsed.ok)
        => \A j \in 1..Len(parsed.commits) : \A k \in 1..Len(Lines) :
              (Lines[k] \in HeaderLines /\ HashOfLine(Lines[k]) = parsed.commits[j].hash)
                 => parsed.commits[j].message = AfterSeparators(Lines[k], 3)

\* C9: the record of a header line followed by a stats line carries the
\* file count of that line, its insertions (0 without the clause), its
\* deletions (0 without the clause), and total_changes is their sum.
C9_StatsOfRecord ==
    (parsed # None /\ parsed.ok)
        => \A j \in 1..Len(parsed.commits) : \A k \in 1..Len(Lines) - 1 :
              (/\ Lines[k] \in HeaderLines
               /\ HashOfLine(Lines[k]) = parsed.commits[j].hash
               /\ Lines[k + 1] \in StatsLines)
                 => LET c == parsed.commits[j]
                        st == StatsOf(Lines[k + 1])
                    IN /\ c.files_changed = st.files_changed
                       /\ c.insertions = st.insertions
                       /\ c.deletions = st.deletions
                       /\ c.total_changes = st.insertions + st.deletions

\* a commit parsed from a header followed by a deletions-only stats line
C9_Witness ==
    /\ parsed # None /\ parsed.ok
    /\ \E j \in 1..Len(parsed.commits) : \E k \in 1..Len(Lines) - 1 :
          /\ HashOfLine(Lines[k]) = parsed.commits[j].hash
          /\ Lines[k + 1] = StatsDel
          /\ parsed.commits[j].insertions = 0
          /\ parsed.commits[j].deletions = 5
          /\ parsed.commits[j].files_changed = 1

\* C10: calculate_metrics on no commits fails with the 'no commits' error and
\* builds no GitMetrics; the orchestrator's Git stage on an empty history
\* does not raise and leaves the git field absent.
C10_EmptyHistory ==
    /\ (aggregated # None /\ parsed.commits = <<>>)
          => /\ ~aggregated.ok
             /\ aggregated.exc = "ValueError"
             /\ aggregated.msg = "Nenhum commit encontrado"
    /\ (aggregated # None /\ aggregated.ok) => parsed.commits # <<>>
    /\ (serviced # None /\ parsed # None /\ parsed.ok /\ parsed.commits = <<>>)
          => /\ ~serviced.raised
             /\ serviced.git_metrics = None

\* both calls made on a history without commits
C10_Witness ==
    /\ parsed # None /\ parsed.ok /\ parsed.commits = <<>>
    /\ aggregated # None
    /\ serviced # None

\* ------------------------------------------------------------------------
\* Properties of IntegratedAnalysisService.analyze and of the export
\* ------------------------------------------------------------------------
\* the running or last call found source files
CodeSucceeds ==
    /\ call # None
    /\ CodeAnalysisService_analyze(call.project, call.avg_salary_month_brl).ok
\* the Git stage of the running or last call fails
GitFails == call # None /\ ~GitAnalysisService_analyze(call.repo).ok

\* the progress callback of the running or last call, if any, returns
CallbackReturns == call # None /\ call.progress_callback.kind # "raises"

\* C1: when code analysis succeeds and the Git stage fails, analyze (given
\* no callback or one that returns) does not raise and returns a bundle with
\* the cost estimate set and with git and integrated both absent.
C1_GitFailureDegrades ==
    (pc = "done" /\ CallbackReturns /\ CodeSucceeds /\ GitFails)
        => /\ outcome.kind = "returned"
           /\ outcome.cocomo_results # None
           /\ outcome.git_metrics = None
           /\ outcome.integrated_metrics = None

\* C2: when code analysis finds no source file, analyze raises, returns no
\* bundle, and no stage after the code stage is entered in that call.
C2_NoSourcesFatal ==
    (call # None /\ call.project.files_count = 0)
        => /\ started = <<"code">>
           /\ pc \in {"code", "done"}
           /\ outcome.kind # "returned"
           /\ pc = "done" => (outcome.kind = "raised"
                              /\ outcome.exc = "CocomoAnalysisError")

\* a second call on an instance holding earlier results finds no source file
C2_Witness ==
    /\ pc = "done"
    /\ calls = 2
    /\ call.project.files_count = 0
    /\ outcome.kind = "raised"
    /\ cocomo_results # None
    /\ git_metrics # None

\* C3: in every returned bundle, of a first or a later call, integrated is
\* present if and only if git is present.
C3_IntegratedIffGit ==
    (pc = "done" /\ outcome.kind = "returned")
        => (outcome.integrated_metrics # None <=> outcome.git_metrics # None)

\* C5: a security stage that is skipped or fails never makes analyze (given
\* no callback or one that returns) raise and leaves the cost estimate and
\* the git field as the other stages made them.
C5_SecurityFailureIsolated ==
    (/\ pc = "done" /\ CallbackReturns /\ CodeSucceeds
     /\ call.run_security_analysis
     /\ SecurityStage(call.semgrep, None).status # "done")
        => /\ outcome.kind = "returned"
           /\ outcome.cocomo_results
                 = CodeAnalysisService_analyze(
                       call.project, call.avg_salary_month_brl).cocomo_results
           /\ outcome.git_metrics = GitStage(call.repo).git_metrics

\* C6: a bundle without git and integrated is exported to a JSON report
\* holding cocomo and neither git nor integrated, and the report generator
\* does not fail on such a report.
C6_DegradedBundleExportable ==
    (/\ pc = "done" /\ outcome.kind = "returned"
     /\ outcome.git_metrics = None /\ outcome.integrated_metrics = None)
        => /\ exported # None
                => /\ exported.ok
                   /\ "cocomo" \in DOMAIN exported.data
                   /\ "git" \notin DOMAIN exported.data
                   /\ "integrated" \notin DOMAIN exported.data
           /\ report # None => report.ok

\* ------------------------------------------------------------------------
\* Properties of calculate_metrics applied to any list of commits
\* ------------------------------------------------------------------------
\* calculate_metrics was applied and returned a GitMetrics
MetricsReturned ==
    input.kind = "calculate_metrics" /\ result # None /\ result.ok

\* the orderings of a list
Perms(s) ==
    {[k \in 1..Len(s) |-> s[f[k]]] :
        f \in {g \in [1..Len(s) -> 1..Len(s)] :
                 \A j, k \in 1..Len(s) : j # k => g[j] # g[k]}}

\* C11: every GitMetrics returned by calculate_metrics has
\* repository_age_days >= 1 and first_commit_date <= last_commit_date.
C11_AgeAtLeastOneDay ==
    MetricsReturned
        => /\ result.metrics.repository_age_days >= 1
           /\ Seconds(result.metrics.first_commit_date)
                 <= Seconds(result.metrics.last_commit_date)

\* two commits less than a day apart, the later one first in the list
C11_Witness ==
    /\ MetricsReturned
    /\ input.commits = <<CommitB, CommitA>>
    /\ result.metrics.repository_age_days = 1
    /\ Seconds(result.metrics.first_commit_date)
          < Seconds(result.metrics.last_commit_date)

\* C12: every reordering of the commits given to calculate_metrics yields the
\* same GitMetrics, whose first and last dates are the least and the greatest
\* date of the list.
C12_OrderInvariant ==
    MetricsReturned
        => /\ \A p \in Perms(input.commits) : calculate_metrics(p) = result
           /\ \A k \in 1..Len(input.commits) :
                 /\ Seconds(result.metrics.first_commit_date)
                       <= Seconds(input.commits[k].date)
                 /\ Seconds(input.commits[k].date)
                       <= Seconds(result.metrics.last_commit_date)

\* three commits given neither oldest first nor newest first
C12_Witness ==
    /\ MetricsReturned
    /\ input.commits = <<CommitC, CommitA, CommitD>>
    /\ result.metrics.first_commit_date = CommitA.date
    /\ result.metrics.last_commit_date = CommitD.date
    /\ result.metrics.repository_age_days = 4

RECURSIVE SumCounts(_)
\* the sum of the values of a mapping
SumCounts(f) ==
    IF DOMAIN f = {} THEN 0
    ELSE LET a == CHOOSE x \in DOMAIN f : TRUE
         IN f[a] + SumCounts([x \in DOMAIN f \ {a} |-> f[x]])

\* C21: authors_commits has one key for each distinct author string of the
\* list, compared exactly, mapped to the number of commits carrying that
\* string; the counts sum to total_commits and total_authors is the number of
\* keys.
C21_AuthorsCommits ==
    MetricsReturned
        => LET cs == input.commits
               m  == result.metrics
           IN /\ DOMAIN m.authors_commits
                    = {cs[k].author : k \in 1..Len(cs)}
              /\ \A a \in DOMAIN m.authors_commits :
                    m.authors_commits[a]
                      = Cardinality({k \in 1..Len(cs) : cs[k].author = a})
              /\ SumCounts(m.authors_commits) = m.total_commits
              /\ m.total_authors = Cardinality(DOMAIN m.authors_commits)

\* two commits of "Jane" around one of "jane": two keys, counts 2 and 1
C21_Witness ==
    /\ MetricsReturned
    /\ input.commits = <<CommitA, CommitC, CommitD>>
    /\ result.metrics.total_authors = 2
    /\ CommitA.author = CommitD.author
    /\ CommitA.author # CommitC.author
    /\ result.metrics.authors_commits[CommitA.author] = 2
    /\ result.metrics.authors_commits[CommitC.author] = 1

\* C20: one commit with insertions i, deletions d and files f yields
\* total_commits = 1, total_authors = 1, avg_changes_per_commit = i + d,
\* avg_files_per_commit = f, repository_age_days = 1 and commits_per_day = 1.
C20_SingleCommit ==
    (MetricsReturned /\ Len(input.commits) = 1)
        => LET c == input.commits[1]
               m == result.metrics
           IN /\ m.total_commits = 1
              /\ m.total_authors = 1
              /\ m.avg_changes_per_commit.num
                    = (c.insertions + c.deletions) * m.avg_changes_per_commit.den
              /\ m.avg_files_per_commit.num
                    = c.files_changed * m.avg_files_per_commit.den
              /\ m.repository_age_days = 1
              /\ m.commits_per_day.num = m.commits_per_day.den

\* the commit with 10 insertions, 5 deletions and 2 files
C20_Witness ==
    /\ MetricsReturned
    /\ input.commits = <<CommitA>>
    /\ result.metrics.avg_changes_per_commit = Ratio(15, 1)
    /\ result.metrics.avg_files_per_commit = Ratio(2, 1)

\* ------------------------------------------------------------------------
\* Properties of calculate_cocomo2
\* ------------------------------------------------------------------------
\* calculate_cocomo2 was applied and the call ended
CocomoCalled == input.kind = "calculate_cocomo2" /\ result # None

\* C15: calculate_cocomo2 returns for every code-line count >= 0 and takes
\* the tier from kloc alone, upper bounds included: 50,000 lines is low,
\* 50,001 mid, 300,000 mid, 300,001 high, whatever argument is passed.
C15_TierFromKloc ==
    CocomoCalled
        => /\ result.ok
           /\ result.val.complexity_level =
                 (CASE input.code_lines \in {0, 1200, 50000} -> "Baixa"
                    [] input.code_lines \in {50001, 300000} -> "Media"
                    [] input.code_lines = 300001 -> "Alta")
           /\ input.code_lines > 0 => result.val.effort_person_months.num > 0

\* 300,000 lines with the argument 'organic': the mid tier, its effort
C15_Witness ==
    /\ CocomoCalled
    /\ input.code_lines = 300000
    /\ input.mode = "organic"
    /\ result.ok
    /\ result.val.complexity_level = "Media"
    /\ result.val.effort_person_months = Ratio(17844, 10)

\* no code line at all: every field is 0 and nothing is raised
C15_WitnessZero ==
    /\ CocomoCalled
    /\ input.code_lines = 0
    /\ result.ok
    /\ result.val.people_required = Ratio(0, 1)
    /\ result.val.productivity = Ratio(0, 1)

\* C14: the cost of the returned CostEstimate is the effort multiplied by
\* the monthly salary given to that analyze call.
C14_CostUsesSalary ==
    (pc = "done" /\ outcome.kind = "returned")
        => LET c == outcome.cocomo_results
           IN c.cost_estimate_brl.num * c.effort_person_months.den
                = c.effort_person_months.num * call.avg_salary_month_brl
                    * c.cost_estimate_brl.den

\* ------------------------------------------------------------------------
\* Properties of _calculate_integrated_metrics
\* ------------------------------------------------------------------------
\* _calculate_integrated_metrics was applied and the call ended
IntegratedCalled == input.kind = "_calculate_integrated_metrics" /\ result # None

\* the quotient 0 / n for a positive n
IsZero(r) == r.num = 0 /\ r.den > 0

\* C13: _calculate_integrated_metrics raises no division by zero for
\* non-negative inputs; a ratio whose denominator is zero is returned as 0,
\* and total_lines = 0 gives lines_per_commit = 0 and
\* commits_needed_to_rebuild = 0 for every GitMetrics.
C13_NoDivisionByZero ==
    IntegratedCalled
        => /\ result.ok
           /\ LET m == result.val
                  g == input.git
              IN /\ input.total_lines = 0
                       => /\ IsZero(m.lines_per_commit)
                          /\ IsZero(m.commits_needed_to_rebuild)
                          /\ IsZero(m.change_percentage_per_commit)
                 /\ g.total_commits = 0 => IsZero(m.lines_per_commit)
                 /\ IsZero(m.lines_per_commit) => IsZero(m.commits_needed_to_rebuild)
                 /\ g.repository_age_days = 0
                       => IsZero(m.actual_velocity) /\ IsZero(m.commits_per_month)
                 /\ IsZero(input.cocomo.productivity)
                       => IsZero(m.estimated_velocity) /\ IsZero(m.velocity_ratio)
                 /\ g.total_insertions + g.total_deletions = 0
                       => IsZero(m.commit_efficiency)

\* no line of code, a history of three commits and a positive kloc
C13_Witness ==
    /\ IntegratedCalled
    /\ input.total_lines = 0
    /\ input.git.total_commits = 3
    /\ input.cocomo.kloc = Ratio(1200, 1000)
    /\ result.ok
    /\ IsZero(result.val.lines_per_commit)
    /\ IsZero(result.val.commits_needed_to_rebuild)

\* the score of a quotient compared with a whole number
ScoreAbove(r, n) == r.num > n * r.den

\* C16, as claimed: there are inputs (CostEstimate, GitMetrics, total_lines)
\* for which developer_productivity_score exceeds 100.
C16_ScoreExceeds100 ==
    input.kind = "_calculate_integrated_metrics"
        => \E i \in IntegratedInputs :
              ScoreAbove(_calculate_integrated_metrics(i.cocomo, i.git,
                                                       i.total_lines)
                             .developer_productivity_score, 100)

\* C16, amended: developer_productivity_score never exceeds 100; each term is
\* clamped (25, 15, 10 above the base of 50), so 100 is its greatest value.
C16_ScoreAtMost100 ==
    (IntegratedCalled /\ result.ok)
        => ~ScoreAbove(result.val.developer_productivity_score, 100)

\* the high tier, a velocity six times the estimate and an efficiency of
\* 1200 %: every term at its ceiling
C16_Witness ==
    /\ IntegratedCalled /\ result.ok
    /\ input.cocomo.complexity_level = "Alta"
    /\ result.val.velocity_ratio = Ratio(1200 * 22, 4400)
    /\ result.val.commit_efficiency = Ratio(1200 * 100, 100)
    /\ result.val.developer_productivity_score = Ratio(100, 1)

\* a quotient that is 0 or above
NonNegative(r) == r.num >= 0 /\ r.den > 0

\* C28: for counts, ages, sizes and rates that are 0 or above, every indicator
\* returned by _calculate_integrated_metrics is 0 or above and
\* developer_productivity_score lies in 50..100.
C28_IndicatorsInRange ==
    IntegratedCalled
        => /\ result.ok
           /\ \A f \in Quotients(result.val) : NonNegative(result.val[f])
           /\ result.val.total_commits >= 0
           /\ ~ScoreAbove(result.val.developer_productivity_score, 100)
           /\ result.val.developer_productivity_score.num
                 >= 50 * result.val.developer_productivity_score.den

\* a history of three commits on a project without a line of code, in the
\* low tier: the score is its base of 50
C28_Witness ==
    /\ IntegratedCalled /\ result.ok
    /\ input.total_lines = 0
    /\ input.git.total_commits = 3
    /\ input.git.repository_age_days = 10
    /\ input.cocomo.complexity_level = "Baixa"
    /\ result.val.developer_productivity_score = Ratio(50, 1)
    /\ result.val.commits_per_month = Ratio(90, 10)

\* ------------------------------------------------------------------------
\* Properties of repeated analyze calls, of progress reports and of the
\* order of the stages
\* ------------------------------------------------------------------------
\* what stage 1, stage 2 and stage 3 of the running or last call produce from
\* the arguments and the environment of that call alone
OwnCode == CodeAnalysisService_analyze(call.project, call.avg_salary_month_brl)
OwnGit == GitStage(call.repo).git_metrics
OwnSecurity ==
    IF call.run_security_analysis
    THEN SecurityStage(call.semgrep, None).security_metrics
    ELSE None

\* C17: the bundle returned by a call, first or later, on an instance holds
\* what that call's own stages produce; its security field is absent when
\* the security stage of the call is disabled, skipped or failed.  (The
\* integrated field of a call without Git metrics is the subject of C3.)
C17_RestartSafe ==
    (pc = "done" /\ outcome.kind = "returned")
        => /\ outcome.cocomo_results = OwnCode.cocomo_results
           /\ outcome.git_metrics = OwnGit
           /\ outcome.security_metrics = OwnSecurity
           /\ OwnGit # None
                 => outcome.integrated_metrics
                      = _calculate_integrated_metrics(
                            OwnCode.cocomo_results, OwnGit,
                            call.project.code_lines)

\* the error that ends the call when no callback is given, "none" when the
\* call returns
FatalCause ==
    IF ~OwnCode.ok THEN OwnCode.exc
    ELSE IF call.run_security_analysis
            /\ SecurityStage(call.semgrep, None).status = "raised"
    THEN SecurityStage(call.semgrep, None).exc
    ELSE "none"

\* how a call ends, and with which cost estimate and Git metrics, when it ends
\* as the same call without a callback
EndsAsWithoutCallback ==
    IF FatalCause = "none"
    THEN /\ outcome.kind = "returned"
         /\ outcome.cocomo_results = OwnCode.cocomo_results
         /\ outcome.git_metrics = OwnGit
         /\ outcome.security_metrics = security_metrics
         /\ outcome.integrated_metrics = integrated_metrics
    ELSE outcome.kind = "raised" /\ outcome.cause = FatalCause

PercentsInRange == \A k \in 1..Len(events) : events[k] \in 0..100

StageOrder == <<"code", "git", "security", "integrated">>

\* C19: the stages of a call start in the order code, git, security,
\* integrated; a stage starts only when the outputs of the stage before it
\* are stored, and the integrated metrics are computed from the cost
\* estimate, the line count and the Git metrics of the same call.
C19_StagesInOrder ==
    /\ Len(started) <= Len(StageOrder)
    /\ \A k \in 1..Len(started) : started[k] = StageOrder[k]
    /\ pc = "code" => started = <<"code">>
    /\ pc = "git"
          => /\ started = <<"code", "git">>
             /\ code_metrics = OwnCode.metrics
             /\ cocomo_results = OwnCode.cocomo_results
    /\ pc \in {"security", "integrated"}
          => /\ started = <<"code", "git", "security">>
             /\ cocomo_results = OwnCode.cocomo_results
             /\ git_metrics = OwnGit
    /\ (pc = "done" /\ Len(started) = 4
           /\ ~CallbackRaises(call.progress_callback, 85))
          => integrated_metrics
               = _calculate_integrated_metrics(OwnCode.cocomo_results, OwnGit,
                                               call.project.code_lines)

\* a second call that ran all four stages on another project and another
\* history than the first call
C19_Witness ==
    /\ pc = "done"
    /\ calls = 2
    /\ started = StageOrder
    /\ outcome.kind = "returned"
    /\ call.project.code_lines = 0
    /\ call.repo.log_output = OneCommitLog
    /\ integrated_metrics.total_commits = 1
    /\ IsZero(integrated_metrics.cocomo_kloc)

\* ------------------------------------------------------------------------
\* Properties of the command-line entry points
\* ------------------------------------------------------------------------
MainRan == input.kind \in {"main", "git_analyzer_main"} /\ result # None

\* C22: at both entry points a path that does not exist, a path that is not
\* a directory and a project without source files end the process with exit
\* status 1, and exit status 0 is that of an analysis of a directory that
\* has source files.
C22_FatalExitsNonZero ==
    MainRan
        => /\ input.path # "dir" => result.code = 1
           /\ (input.path = "dir" /\ input.project.files_count = 0)
                 => result.code = 1
           /\ result.code = 0
                 => input.path = "dir" /\ input.project.files_count > 0

\* ------------------------------------------------------------------------
\* Properties of get_commits on headers without stats and on stray stats
\* lines
\* ------------------------------------------------------------------------
\* header lines whose date field is a date
DatedHeaders == HeaderLines \ {HdrBadDate}

\* the records of cs that carry the hash of header line l
RecordsOf(cs, l) == {j \in 1..Len(cs) : cs[j].hash = HashOfLine(l)}

\* C23: in a text of header lines, each optionally followed by one stats
\* line, a header line followed at once by another header line yields a
\* record with files_changed = insertions = deletions = 0, and the second
\* line yields a record of its own, whatever its subject is.
C23_HeaderAfterHeader ==
    (parsed # None /\ HeadersAndStats(Lines, DatedHeaders))
        => \A k \in 1..Len(Lines) - 1 :
              (Lines[k] \in DatedHeaders /\ Lines[k + 1] \in DatedHeaders)
                 => /\ parsed.ok
                    /\ \E j \in RecordsOf(parsed.commits, Lines[k]) :
                          /\ parsed.commits[j].files_changed = 0
                          /\ parsed.commits[j].insertions = 0
                          /\ parsed.commits[j].deletions = 0
                    /\ RecordsOf(parsed.commits, Lines[k + 1]) # {}

\* a line that is neither a header nor a stats line
OtherLines == {Blank} \cup MalformedLines

\* C24: in a text of dated header lines, stats lines and other lines, a stats
\* line right after a header line is carried by the one record of that
\* header; when another line stands between a header and a stats line, the
\* record of that header has files_changed = insertions = deletions = 0; and
\* every record with a count above 0 has it from the stats line right after
\* its own header.
C24_StatsOnlyAfterHeader ==
    (parsed # None
     /\ \A k \in 1..Len(Lines) :
            Lines[k] \in DatedHeaders \cup StatsLines \cup OtherLines)
        => /\ \A k \in 2..Len(Lines) :
                 (Lines[k] \in StatsLines /\ Lines[k - 1] \in DatedHeaders)
                    => /\ parsed.ok
                       /\ Cardinality(RecordsOf(parsed.commits, Lines[k - 1])) = 1
                       /\ \A j \in RecordsOf(parsed.commits, Lines[k - 1]) :
                             /\ parsed.commits[j].files_changed
                                   = StatsOf(Lines[k]).files_changed
                             /\ parsed.commits[j].insertions
                                   = StatsOf(Lines[k]).insertions
                             /\ parsed.commits[j].deletions
                                   = StatsOf(Lines[k]).deletions
           /\ \A k \in 3..Len(Lines) :
                 (/\ Lines[k] \in StatsLines
                  /\ Lines[k - 1] \in OtherLines
                  /\ Lines[k - 2] \in DatedHeaders)
                    => /\ parsed.ok
                       /\ \E j \in RecordsOf(parsed.commits, Lines[k - 2]) :
                             /\ parsed.commits[j].files_changed = 0
                             /\ parsed.commits[j].insertions = 0
                             /\ parsed.commits[j].deletions = 0
           /\ parsed.ok
                 => \A j \in 1..Len(parsed.commits) :
                       (parsed.commits[j].files_changed > 0
                        \/ parsed.commits[j].insertions > 0
                        \/ parsed.commits[j].deletions > 0)
                          => \E k \in 1..Len(Lines) - 1 :
                                /\ Lines[k] \in DatedHeaders
                                /\ HashOfLine(Lines[k]) = parsed.commits[j].hash
                                /\ Lines[k + 1] \in StatsLines
                                /\ parsed.commits[j].files_changed
                                      = StatsOf(Lines[k + 1]).files_changed

\* a call returned a bundle with Git metrics for a project with code lines
ReturnedWithGitAndCode ==
    /\ pc = "done"
    /\ outcome.kind = "returned"
    /\ outcome.git_metrics # None
    /\ call.project.code_lines > 0

\* C29 as stated: in a run whose Git stage succeeded on a project with more
\* than 0 code lines, the float commits_needed_to_rebuild is the number
\* total_commits.
C29_CommitsNeededIsTotalCommits ==
    ReturnedWithGitAndCode
        => LET c == outcome.integrated_metrics.commits_needed_to_rebuild
           IN /\ c.num = outcome.git_metrics.total_commits * c.den
              /\ c.ulps = 0

\* C29 amended: it is total_commits up to the rounding of the four float
\* operations, at most two units in the last place.
C29_CommitsNeededNearTotalCommits ==
    ReturnedWithGitAndCode
        => LET c == outcome.integrated_metrics.commits_needed_to_rebuild
           IN /\ c.num = outcome.git_metrics.total_commits * c.den
              /\ c.ulps \in (0 - 2)..2

\* 1001 lines and two commits: 1.9999999999999998
C29_Witness ==
    /\ ReturnedWithGitAndCode
    /\ call.project.code_lines = 1001
    /\ outcome.git_metrics.total_commits = 2
    /\ outcome.integrated_metrics.commits_needed_to_rebuild.num = 2002000
    /\ outcome.integrated_metrics.commits_needed_to_rebuild.den = 1001000
    /\ outcome.integrated_metrics.commits_needed_to_rebuild.ulps = 0 - 1

\* ------------------------------------------------------------------------
\* Properties of the sequence of progress reports
\* ------------------------------------------------------------------------
NonDecreasing(s) == \A k \in 1..Len(s) - 1 : s[k] <= s[k + 1]

\* 100 is reported once, as the last report
HundredOnceLast(s) ==
    /\ s # <<>>
    /\ Last(s) = 100
    /\ \A k \in 1..Len(s) - 1 : s[k] # 100

\* the reports of a call that returned a bundle
ReturnedReports ==
    (pc = "done" /\ outcome.kind = "returned"
       /\ call.progress_callback.kind # "none")
        => HundredOnceLast(events)

\* C25 as stated: the percents passed to the callback in a call never
\* decrease, a call that returns a bundle reports 100 once and last, and a
\* call that fails never reports 100.
C25_ProgressMonotone ==
    /\ NonDecreasing(events)
    /\ ReturnedReports
    /\ (pc = "done" /\ outcome.kind = "raised")
          => \A k \in 1..Len(events) : events[k] # 100

\* C25 amended: the same, except that a call fails after reporting 100 when
\* the callback raises on that report, which is then the last one.
C25_ProgressMonotoneUnlessRaisedAt100 ==
    /\ NonDecreasing(events)
    /\ ReturnedReports
    /\ (pc = "done" /\ outcome.kind = "raised")
          => \/ \A k \in 1..Len(events) : events[k] # 100
             \/ /\ outcome.cause = "callback"
                /\ CallbackRaises(call.progress_callback, 100)
                /\ HundredOnceLast(events)

\* a call without Git metrics and with the scan skipped returned after six
\* reports
C25_Witness ==
    /\ pc = "done"
    /\ outcome.kind = "returned"
    /\ outcome.git_metrics = None
    /\ call.run_security_analysis
    /\ events = <<10, 30, 35, 62, 80, 100>>

\* ------------------------------------------------------------------------
\* Properties of the errors that leave analyze
\* ------------------------------------------------------------------------
\* the callback of the call raised on the report it was given last
CallbackRaised ==
    /\ call.progress_callback.kind = "raises"
    /\ events # <<>>
    /\ CallbackRaises(call.progress_callback, Last(events))

\* C30: a call ends by returning a bundle or by raising CocomoAnalysisError,
\* which carries no bundle; an exception of stage 1, of the semgrep probe or
\* of the progress callback always ends the call with CocomoAnalysisError.
\* The exceptions are those of class Exception, the ones `except Exception`
\* names.
C30_ErrorsAreCocomoAnalysisError ==
    pc = "done"
        => /\ outcome.kind \in {"returned", "raised"}
           /\ outcome.kind = "raised"
                 => /\ outcome.exc = "CocomoAnalysisError"
                    /\ DOMAIN outcome = {"kind", "exc", "cause"}
                    /\ FatalCause # "none" \/ CallbackRaised
           /\ (FatalCause # "none" \/ CallbackRaised) => outcome.kind = "raised"

\* the callback raised on the report of a finished Git stage
C30_Witness ==
    /\ pc = "done"
    /\ outcome.kind = "raised"
    /\ outcome.exc = "CocomoAnalysisError"
    /\ outcome.cause = "callback"
    /\ Last(events) = 60
    /\ git_metrics # None

(***************************************************************************)
(* The terminal UI, src/src/ui/app.py.  Handlers run on the UI thread, one *)
(* at a time; every @work(thread=True) method runs in a thread of its own  *)
(* and reaches the UI thread only through call_from_thread, which blocks   *)
(* the worker until the UI thread has run the callback.  A worker is       *)
(* modelled with one step per stretch of code between two such calls.      *)
(***************************************************************************)

\* the repositories a user can open: all have a .git directory
\* (WelcomeScreen.start_analysis refuses any other path)
Path(name) == [kind |-> "Path", name |-> name]
TuiPaths == {Path("projA"), Path("projB"), Path("emptyRepo"),
             Path("noSources")}

\* a result object, tagged by the worker that computed it and its project
TuiResult(kind, run, path) == [kind |-> kind, run |-> run, path |-> path]

\* IntegratedAnalyzer(path).analyze(custom_salary, run_security_analysis =
\* False) as seen by worker `run`: the bundle, or "raised"
TuiAnalyze(run, path) ==
    IF path = Path("noSources") THEN [kind |-> "raised"]
    ELSE IF path = Path("emptyRepo")
    THEN [kind |-> "bundle",
          cocomo |-> TuiResult("CocomoResults", run, path),
          git |-> None, integrated |-> None]
    ELSE [kind |-> "bundle",
          cocomo |-> TuiResult("CocomoResults", run, path),
          git |-> TuiResult("GitMetrics", run, path),
          integrated |-> TuiResult("IntegratedMetrics", run, path)]

\* all([...]) over result objects: None is the only falsy one
AllSet(xs) == \A x \in xs : x # None

Worker(kind, path) ==
    [kind |-> kind, pc |-> "start", path |-> path, value |-> None]

CanSpawn == Len(workers) < MaxWorkers

\* start_analysis(path): only project_path is assigned before the worker
\* is started
start_analysis(path) ==
    /\ app' = [app EXCEPT !.project_path = path]
    /\ workers' = Append(workers, Worker("perform_analysis", path))

\* WelcomeScreen.start_analysis / action_analyze_current
StartAnalysis ==
    /\ CanSpawn
    /\ \E path \in TuiPaths : start_analysis(path)
    /\ UNCHANGED <<displayed, export_file, gitVars, svcVars>>

ActionReload ==
    /\ CanSpawn
    /\ app.project_path # None
    /\ start_analysis(app.project_path)
    /\ UNCHANGED <<displayed, export_file, gitVars, svcVars>>

\* perform_analysis up to update_progress(30): the CodeAnalyzer
PerformAnalysisCode(w) ==
    /\ workers[w].kind = "perform_analysis"
    /\ workers[w].pc = "start"
    /\ app' = [app EXCEPT !.code_analyzer =
                   TuiResult("CodeAnalyzer", w, workers[w].path)]
    /\ workers' = [workers EXCEPT ![w].pc = "analyze"]
    /\ UNCHANGED <<displayed, export_file, gitVars, svcVars>>

\* perform_analysis up to update_progress(70): the integrated analysis
PerformAnalysisAnalyze(w) ==
    /\ workers[w].kind = "perform_analysis"
    /\ workers[w].pc = "analyze"
    /\ \E bundle \in {TuiAnalyze(w, workers[w].path)} :
         workers' = [workers EXCEPT
                        ![w].pc = IF bundle.kind = "raised"
                                  THEN "error" ELSE "assign",
                        ![w].value = bundle]
    /\ UNCHANGED <<app, displayed, export_file, gitVars, svcVars>>

\* perform_analysis up to update_progress(85)
PerformAnalysisAssign(w) ==
    /\ workers[w].kind = "perform_analysis"
    /\ workers[w].pc = "assign"
    /\ app' = [app EXCEPT !.cocomo_results = workers[w].value.cocomo,
                          !.git_metrics = workers[w].value.git]
    /\ workers' = [workers EXCEPT ![w].pc = "integrated"]
    /\ UNCHANGED <<displayed, export_file, gitVars, svcVars>>

\* perform_analysis up to update_progress(95)
PerformAnalysisIntegrated(w) ==
    /\ workers[w].kind = "perform_analysis"
    /\ workers[w].pc = "integrated"
    /\ app' = [app EXCEPT !.integrated_metrics = workers[w].value.integrated]
    /\ workers' = [workers EXCEPT ![w].pc = "update_results"]
    /\ UNCHANGED <<displayed, export_file, gitVars, svcVars>>

\* call_from_thread(self.update_results)
update_results(w) ==
    /\ workers[w].kind = "perform_analysis"
    /\ workers[w].pc = "update_results"
    /\ displayed' =
         IF AllSet({app.cocomo_results, app.git_metrics,
                    app.integrated_metrics})
         THEN [cocomo |-> app.cocomo_results, git |-> app.git_metrics,
               integrated |-> app.integrated_metrics]
         ELSE displayed
    /\ workers' = [workers EXCEPT ![w].pc = "done"]
    /\ UNCHANGED <<app, export_file, gitVars, svcVars>>

\* the data dictionary of action_export_json and action_export_pdf; a key
\* the code leaves out is None here
ExportData(format) ==
    [format |-> format,
     project_path |-> app.project_path,
     cocomo |-> app.cocomo_results,
     git |-> app.git_metrics,
     integrated |-> app.integrated_metrics,
     ai_insights |-> IF app.ai_insights_generated
                        /\ app.ai_insights_data # None
                     THEN app.ai_insights_data ELSE None,
     security |-> app.security_metrics]

ActionExportJson ==
    /\ AllSet({app.cocomo_results, app.git_metrics, app.integrated_metrics})
    /\ export_file' = ExportData("json")
    /\ UNCHANGED <<app, workers, displayed, gitVars, svcVars>>

ActionExportPdf ==
    /\ AllSet({app.cocomo_results, app.git_metrics, app.integrated_metrics})
    /\ export_file' = ExportData("pdf")
    /\ UNCHANGED <<app, workers, displayed, gitVars, svcVars>>

ActionRunSecurityAnalysis ==
    /\ CanSpawn
    /\ app.project_path # None
    /\ workers' = Append(workers, Worker("run_security_analysis", None))
    /\ UNCHANGED <<app, displayed, export_file, gitVars, svcVars>>

\* run_security_analysis_worker up to its call_from_thread: the project is
\* read when the worker runs; semgrep may be missing
SecurityScan(w) ==
    /\ workers[w].kind = "run_security_analysis"
    /\ workers[w].pc = "start"
    /\ \E available \in BOOLEAN :
         workers' = [workers EXCEPT
                        ![w].path = app.project_path,
                        ![w].pc = IF available THEN "deliver" ELSE "error",
                        ![w].value =
                            IF available
                            THEN TuiResult("SecurityMetrics", w,
                                           app.project_path)
                            ELSE None]
    /\ UNCHANGED <<app, displayed, export_file, gitVars, svcVars>>

\* call_from_thread(self.update_security_results, metrics)
update_security_results(w) ==
    /\ workers[w].kind = "run_security_analysis"
    /\ workers[w].pc = "deliver"
    /\ app' = [app EXCEPT !.security_metrics = workers[w].value]
    /\ workers' = [workers EXCEPT ![w].pc = "done"]
    /\ UNCHANGED <<displayed, export_file, gitVars, svcVars>>

\* with OPENAI_API_KEY set
ActionGenerateAiInsights ==
    /\ CanSpawn
    /\ AllSet({app.cocomo_results, app.code_analyzer})
    /\ workers' = Append(workers, Worker("generate_ai_insights", None))
    /\ UNCHANGED <<app, displayed, export_file, gitVars, svcVars>>

\* generate_ai_insights_worker up to its call_from_thread: the project and
\* its results are read when the worker runs; the request may fail
AiInsightsGenerate(w) ==
    /\ workers[w].kind = "generate_ai_insights"
    /\ workers[w].pc = "start"
    /\ \E answered \in BOOLEAN :
         workers' = [workers EXCEPT
                        ![w].path = app.project_path,
                        ![w].pc = IF answered THEN "deliver" ELSE "error",
                        ![w].value =
                            IF answered
                            THEN TuiResult("ai_insights", w,
                                           app.project_path)
                            ELSE None]
    /\ UNCHANGED <<app, displayed, export_file, gitVars, svcVars>>

\* call_from_thread(self.update_ai_insights, insights_result)
update_ai_insights(w) ==
    /\ workers[w].kind = "generate_ai_insights"
    /\ workers[w].pc = "deliver"
    /\ app' = [app EXCEPT !.ai_insights_generated = TRUE,
                          !.ai_insights_data = workers[w].value]
    /\ workers' = [workers EXCEPT ![w].pc = "done"]
    /\ UNCHANGED <<displayed, export_file, gitVars, svcVars>>

InitTui ==
    /\ log_output = EmptyLog
    /\ parsed = None
    /\ aggregated = None
    /\ serviced = None
    /\ CalcIdle
    /\ SvcIdle
    /\ TuiIdle

NextTui ==
    \/ StartAnalysis
    \/ ActionReload
    \/ ActionExportJson
    \/ ActionExportPdf
    \/ ActionRunSecurityAnalysis
    \/ ActionGenerateAiInsights
    \/ \E w \in 1..Len(workers) : PerformAnalysisCode(w)
    \/ \E w \in 1..Len(workers) : PerformAnalysisAnalyze(w)
    \/ \E w \in 1..Len(workers) : PerformAnalysisAssign(w)
    \/ \E w \in 1..Len(workers) : PerformAnalysisIntegrated(w)
    \/ \E w \in 1..Len(workers) : update_results(w)
    \/ \E w \in 1..Len(workers) : SecurityScan(w)
    \/ \E w \in 1..Len(workers) : update_security_results(w)
    \/ \E w \in 1..Len(workers) : AiInsightsGenerate(w)
    \/ \E w \in 1..Len(workers) : update_ai_insights(w)

SpecTui == InitTui /\ [][NextTui]_vars

\* the three results of a display or an export come from one analysis run
OneRun(d) ==
    /\ d.cocomo.run = d.git.run
    /\ d.git.run = d.integrated.run

\* C26: whenever results are displayed or exported in the terminal UI, the
\* COCOMO results, the Git metrics and the integrated metrics all come from
\* the same analysis run, also when a second analysis is started while an
\* earlier worker is still running.
C26_ResultsFromOneRun ==
    /\ displayed # None => OneRun(displayed)
    /\ export_file # None => OneRun(export_file)

\* C27: once an analysis has been started for a project, an export holds
\* no security metrics and no AI insights produced for another, previously
\* analysed project.
C27_ExportOfCurrentProject ==
    export_file # None =>
        /\ export_file.security # None =>
               export_file.security.path = export_file.project_path
        /\ export_file.ai_insights # None =>
               export_file.ai_insights.path = export_file.project_path

====
